---- MODULE Spec2Model ----
(***************************************************************************)
(* Job lifecycle of the rake-formation planner (backend/app/routers/       *)
(* planning.py): the planning_jobs, plans and plan_rakes tables, the       *)
(* background runner execute_planning_job and the cancel_job handler.      *)
(*                                                                         *)
(* The runner works on an ORM session.  A session commit expires the       *)
(* loaded job object, so the next attribute access re-reads the row; the   *)
(* following commit issues an UPDATE of the changed columns only.  Each    *)
(* checkpoint of the runner is therefore a read step followed by a write   *)
(* step, and requests of other sessions may commit in between.             *)
(***************************************************************************)
EXTENDS Integers, Sequences, FiniteSets, TLC

\* ---------------------------------------------------------------- bounds
MaxCancels == 2
MaxRakes == 1
MaxOrderRows == 1
MaxCommits == 2

\* Jobs share no row of the three tables and every background task has a
\* session of its own, so the lifecycle is modelled for one job id.
JobIds == {1}
CancelIds == 1..MaxCancels
RakeNumbers == 1..MaxRakes
OrderRowIds == 1..MaxOrderRows

\* A commit conflict involves two plans: the commit executor is modelled
\* for two plan ids (a plan has the id of its job).
PlanIds == {1, 2}

\* ------------------------------------------------------------- constants
Statuses == {"queued", "running", "completed", "failed", "cancelled"}
Terminal == {"completed", "failed", "cancelled"}

\* modes a request may name in its config; run_planner knows three of them
Modes == {"greedy", "or-tools", "hybrid", "optimal", "bogus"}

\* log lines (the timestamp prefix is left out)
LogStart == "Starting planning job"
LogLoaded == "Loaded"
LogRunning == "Running planner"
LogPlanned == "Planning completed"
LogCompleted == "Job completed successfully"
LogError == "ERROR"
LogCancelled == "Job cancelled by user"

VARIABLES
    planning_jobs,  \* table planning_jobs: job id -> row
    plans,          \* table plans: plan id (= id of the owning job) -> row
    plan_rakes,     \* table plan_rakes: set of rows
    pc,             \* position of the background task of each job
    session_job,    \* the runner session's loaded copy of the job row
    plan_result,    \* the runner's local plan_result
    cancel_reqs,    \* cancel_job requests of each job
    snapshot,       \* the runner's local orders / rakes read at lines 32-34
    rakes,          \* table rakes: rake_number -> status
    orders,         \* table orders: order id -> status
    stockyards,     \* table stockyards: code -> current_inventory
    commit_log,     \* the responses of commit_plan so far, for each plan id
    inp,            \* planner run: the arguments of run_planner
    gp,             \* planner runs: the locals of GreedyPlanner.plan, per run
    result,         \* planner runs: the value the planner returned, per run
    dicts           \* the inventory dict objects: owner -> stockyard code -> dict

jobVars == <<planning_jobs, plans, plan_rakes, pc, session_job, plan_result, cancel_reqs, snapshot>>
refVars == <<rakes, orders, stockyards>>

plannerVars == <<inp, gp, result, dicts>>

vars == <<jobVars, refVars, commit_log, plannerVars>>

\* --------------------------------------------------------------- helpers
\* the column defaults of a new PlanningJob row
NewJob(mode) ==
    [status |-> "queued", progress |-> 0, logs |-> <<>>,
     started_at |-> FALSE, completed_at |-> FALSE, mode |-> mode]

\* an object whose attributes are expired (nothing loaded)
Expired ==
    [status |-> "expired", progress |-> 0, logs |-> <<>>,
     started_at |-> FALSE, completed_at |-> FALSE, mode |-> "expired"]

NoResult == [raised |-> FALSE, rakes |-> {}]

NoSnapshot == [orders |-> {}, rakes |-> {}, stockyards |-> <<>>]

\* the stockyard rows of the job specifications: one stockyard with stock
StockyardRows == [s \in {"SY001"} |-> [c \in {"COAL"} |-> 2]]

\* no planner run is followed
\* no planner run is open
NoInput == [orders |-> <<>>]

PlannerIdle ==
    /\ inp = NoInput
    /\ gp = <<>>
    /\ result = <<>>
    /\ dicts = <<>>

IdleReq == [pc |-> "idle", job |-> Expired, response |-> "none"]

Exists(j) == j \in DOMAIN planning_jobs

\* ------------------------------------------------------------------ Init
\* the tables after construction: no job, no plan, the reference rows loaded
TablesWith(order_rows) ==
    /\ planning_jobs = <<>>
    /\ plans = <<>>
    /\ plan_rakes = {}
    /\ pc = [j \in JobIds |-> "none"]
    /\ session_job = [j \in JobIds |-> Expired]
    /\ plan_result = [j \in JobIds |-> NoResult]
    /\ cancel_reqs = [j \in JobIds |-> [c \in CancelIds |-> IdleReq]]
    /\ snapshot = [j \in JobIds |-> NoSnapshot]
    /\ rakes = [r \in RakeNumbers |-> "available"]
    /\ orders = order_rows
    /\ stockyards = StockyardRows
    /\ commit_log = [p \in PlanIds |-> <<>>]

TablesInit == TablesWith([o \in OrderRowIds |-> "pending"])

Init ==
    /\ TablesInit
    /\ PlannerIdle

\* --------------------------------------------------------- generate_plan
generate_plan(j, mode) ==
    /\ j = Len(planning_jobs) + 1
    /\ j \in JobIds
    /\ planning_jobs' = Append(planning_jobs, NewJob(mode))
    /\ pc' = [pc EXCEPT ![j] = "load"]
    /\ UNCHANGED <<plans, plan_rakes, session_job, plan_result, cancel_reqs, snapshot, refVars, commit_log, plannerVars>>

\* ------------------------------------------------- execute_planning_job
\* run_planner accepts these modes and raises ValueError for any other
KnownModes == {"greedy", "or-tools", "hybrid"}

\* the rake lists a plan result may carry for a snapshot: at most one
\* PlanRake for a rake, each with at least one order, no order on two rakes
RakePlanSets(snap) ==
    {P \in SUBSET [rake_number : snap.rakes, orders : (SUBSET snap.orders) \ {{}}] :
        \A a, b \in P : a # b => (a.rake_number # b.rake_number /\ a.orders \cap b.orders = {})}

\* the outcomes of run_planner(mode, ...) on a snapshot: a result with a
\* rake list, or an exception raised by the dispatcher (unknown mode) or
\* inside a planner
PlannerOutcomes(mode, snap) ==
    IF mode \in KnownModes
    THEN [raised : {FALSE}, rakes : RakePlanSets(snap)] \cup {[raised |-> TRUE, rakes |-> {}]}
    ELSE {[raised |-> TRUE, rakes |-> {}]}

\* UPDATE issued by the commit of lines 27-30
StartWrite(row, copy) ==
    [row EXCEPT !.status = "running", !.started_at = TRUE,
                !.logs = Append(copy.logs, LogStart)]

\* UPDATE issued by the commits of lines 36-38, 84-86, 96-98
ProgressWrite(row, copy, line, progress) ==
    [row EXCEPT !.logs = Append(copy.logs, line), !.progress = progress]

\* UPDATE issued by the commit of lines 137-141
CompleteWrite(row, copy) ==
    [row EXCEPT !.status = "completed", !.completed_at = TRUE,
                !.progress = 100, !.logs = Append(copy.logs, LogCompleted)]

\* the except block without the completed_at assignment of line 147
FailWrite_NoCompletedAt(row, copy) ==
    [row EXCEPT !.status = "failed", !.logs = Append(copy.logs, LogError)]

\* the except block without the status assignment of line 146
FailWrite_KeepStatus(row, copy) ==
    [row EXCEPT !.completed_at = TRUE, !.logs = Append(copy.logs, LogError)]

\* UPDATE issued by the commit of lines 146-149
FailWrite(row, copy) ==
    [row EXCEPT !.status = "failed", !.completed_at = TRUE,
                !.logs = Append(copy.logs, LogError)]

\* an attribute access on the expired job object re-reads the row
Refresh(j, from, to) ==
    /\ pc[j] = from
    /\ session_job' = [session_job EXCEPT ![j] = planning_jobs[j]]
    /\ pc' = [pc EXCEPT ![j] = to]
    /\ UNCHANGED <<planning_jobs, plans, plan_rakes, plan_result, cancel_reqs, snapshot, refVars, commit_log, plannerVars>>

\* db.commit() of the pending changes of the job object; expires the object
CommitJob(j, from, to, row) ==
    /\ pc[j] = from
    /\ planning_jobs' = [planning_jobs EXCEPT ![j] = row]
    /\ session_job' = [session_job EXCEPT ![j] = Expired]
    /\ pc' = [pc EXCEPT ![j] = to]
    /\ UNCHANGED <<plans, plan_rakes, plan_result, cancel_reqs, snapshot, refVars, commit_log, plannerVars>>

\* db.commit() inside the try block: it stores the changes, or it raises a
\* persistence error, which rolls the transaction back (the row keeps its
\* stored value, the object is expired) and enters the except block
TryCommitJob(j, from, to, row) ==
    \/ CommitJob(j, from, to, row)
    \/ /\ pc[j] = from
       /\ session_job' = [session_job EXCEPT ![j] = Expired]
       /\ pc' = [pc EXCEPT ![j] = "except"]
       /\ UNCHANGED <<planning_jobs, plans, plan_rakes, plan_result, cancel_reqs, snapshot, refVars, commit_log, plannerVars>>

\* line 23
job_query(j) == Refresh(j, "load", "start")

\* lines 27-30
job_start(j) ==
    TryCommitJob(j, "start", "snapshot", StartWrite(planning_jobs[j], session_job[j]))

\* lines 32-34 if the orders were loaded whatever their status
TakeSnapshot_AllOrders ==
    [orders |-> DOMAIN orders,
     rakes |-> {r \in DOMAIN rakes : rakes[r] = "available"},
     stockyards |-> stockyards]

\* lines 32-34: the pending orders and the available rakes
TakeSnapshot ==
    [orders |-> {o \in DOMAIN orders : orders[o] = "pending"},
     rakes |-> {r \in DOMAIN rakes : rakes[r] = "available"},
     stockyards |-> stockyards]

\* lines 32-36: the snapshot queries, then job.logs is read
job_snapshot(j) ==
    /\ pc[j] = "snapshot"
    /\ snapshot' = [snapshot EXCEPT ![j] = TakeSnapshot]
    /\ session_job' = [session_job EXCEPT ![j] = planning_jobs[j]]
    /\ pc' = [pc EXCEPT ![j] = "commit20"]
    /\ UNCHANGED <<planning_jobs, plans, plan_rakes, plan_result, cancel_reqs,
                   refVars, commit_log, plannerVars>>

\* lines 36-38
job_commit_loaded(j) ==
    TryCommitJob(j, "commit20", "read40",
              ProgressWrite(planning_jobs[j], session_job[j], LogLoaded, 20))

\* line 84
job_read_running(j) == Refresh(j, "read40", "commit40")

\* lines 84-86
job_commit_running(j) ==
    TryCommitJob(j, "commit40", "planner",
              ProgressWrite(planning_jobs[j], session_job[j], LogRunning, 40))

\* lines 88-94: the call of run_planner with the mode of the job's config
job_run_planner(j) ==
    /\ pc[j] = "planner"
    /\ \E r \in PlannerOutcomes(planning_jobs[j].mode, snapshot[j]) :
          /\ plan_result' = [plan_result EXCEPT ![j] = r]
          /\ pc' = [pc EXCEPT ![j] = IF r.raised THEN "except" ELSE "read80"]
    /\ UNCHANGED <<planning_jobs, plans, plan_rakes, session_job, cancel_reqs, snapshot, refVars, commit_log, plannerVars>>

\* line 96
job_read_planned(j) == Refresh(j, "read80", "commit80")

\* lines 96-98
job_commit_planned(j) ==
    TryCommitJob(j, "commit80", "persist_plan",
              ProgressWrite(planning_jobs[j], session_job[j], LogPlanned, 80))

\* the Plan row of job j (its own id stands for the generated plan id)
NewPlan(j) == [job_id |-> j, committed |-> FALSE, committed_at |-> FALSE]

\* the PlanRake rows of a plan result
NewPlanRakes(j, res) ==
    {[plan_id |-> j, rake_number |-> rp.rake_number, orders_assigned |-> rp.orders] :
        rp \in res.rakes}

\* lines 100-114: insert the Plan row and commit; a persistence error rolls
\* the insert back and enters the except block
job_persist_plan(j) ==
    /\ pc[j] = "persist_plan"
    /\ \E ok \in BOOLEAN :
          IF ok
          THEN /\ plans' = (j :> NewPlan(j)) @@ plans
               /\ pc' = [pc EXCEPT ![j] = "persist_rakes"]
          ELSE /\ plans' = plans
               /\ pc' = [pc EXCEPT ![j] = "except"]
    /\ UNCHANGED <<planning_jobs, plan_rakes, session_job, plan_result, cancel_reqs, snapshot, refVars, commit_log, plannerVars>>

\* lines 116-135 if storing a PlanRake also reserved its rake
RakesAfterPersist_Reserve(rks, rows) ==
    [r \in DOMAIN rks |->
        IF \E pr \in rows : pr.rake_number = r THEN "assigned" ELSE rks[r]]

\* lines 116-135: the Rake rows after the PlanRake rows are stored; the loop
\* reads rake_plan['rake_number'] and writes no Rake
RakesAfterPersist(rks, rows) == rks

\* lines 116-135: insert every PlanRake row and commit them together
job_persist_rakes(j) ==
    /\ pc[j] = "persist_rakes"
    /\ \E ok \in BOOLEAN :
          IF ok
          THEN /\ plan_rakes' = plan_rakes \cup NewPlanRakes(j, plan_result[j])
               /\ rakes' = RakesAfterPersist(rakes, NewPlanRakes(j, plan_result[j]))
               /\ pc' = [pc EXCEPT ![j] = "read100"]
          ELSE /\ plan_rakes' = plan_rakes
               /\ rakes' = rakes
               /\ pc' = [pc EXCEPT ![j] = "except"]
    /\ UNCHANGED <<planning_jobs, plans, session_job, plan_result, cancel_reqs, snapshot,
                   orders, stockyards, commit_log, plannerVars>>

\* lines 137-140: job.logs is read
job_read_completed(j) == Refresh(j, "read100", "commit100")

\* lines 137-141
job_commit_completed(j) ==
    TryCommitJob(j, "commit100", "done", CompleteWrite(planning_jobs[j], session_job[j]))

\* line 144
job_except_query(j) == Refresh(j, "except", "commit_failed")

\* lines 145-149
job_commit_failed(j) ==
    CommitJob(j, "commit_failed", "done", FailWrite(planning_jobs[j], session_job[j]))

\* ------------------------------------------------------------ cancel_job
\* the check of line 215 without 'cancelled'
CancelRejected_NoCancelled(status) == status \in {"completed", "failed"}

\* line 215
CancelRejected(status) == status \in {"completed", "failed", "cancelled"}

\* the commit of lines 218-221 as a replace of the whole row by the loaded one
CancelWrite_FullRow(row, copy) ==
    [copy EXCEPT !.status = "cancelled", !.completed_at = TRUE,
                 !.logs = Append(copy.logs, LogCancelled)]

\* UPDATE issued by the commit of lines 218-221
CancelWrite(row, copy) ==
    [row EXCEPT !.status = "cancelled", !.completed_at = TRUE,
                !.logs = Append(copy.logs, LogCancelled)]

\* lines 210-216: the query and the two checks
cancel_job_query(j, c) ==
    /\ cancel_reqs[j][c].pc = "idle"
    /\ c > 1 => cancel_reqs[j][c - 1].pc # "idle"
    /\ cancel_reqs' = [cancel_reqs EXCEPT ![j][c] =
          IF ~Exists(j)
          THEN [pc |-> "done", job |-> Expired, response |-> "404"]
          ELSE IF CancelRejected(planning_jobs[j].status)
          THEN [pc |-> "done", job |-> Expired, response |-> "400"]
          ELSE [pc |-> "commit", job |-> planning_jobs[j], response |-> "none"]]
    /\ UNCHANGED <<planning_jobs, plans, plan_rakes, pc, session_job, plan_result, snapshot, refVars, commit_log, plannerVars>>

\* lines 218-223
cancel_job_commit(j, c) ==
    /\ cancel_reqs[j][c].pc = "commit"
    /\ planning_jobs' = [planning_jobs EXCEPT ![j] =
          CancelWrite(planning_jobs[j], cancel_reqs[j][c].job)]
    /\ cancel_reqs' = [cancel_reqs EXCEPT ![j][c] =
          [pc |-> "done", job |-> Expired, response |-> "200"]]
    /\ UNCHANGED <<plans, plan_rakes, pc, session_job, plan_result, snapshot, refVars, commit_log, plannerVars>>

\* ----------------------------------------------------------- commit_plan
PlanRakesOf(p) == {pr \in plan_rakes : pr.plan_id = p}

\* line 337 without the check
AlreadyCommitted_Never(plan) == FALSE

\* line 337
AlreadyCommitted(plan) == plan.committed

\* lines 345-348: the rake of every PlanRake, if it exists, becomes assigned
CommitRakes(rks, rows) ==
    [r \in DOMAIN rks |->
        IF \E pr \in rows : pr.rake_number = r THEN "assigned" ELSE rks[r]]

\* lines 350-353 left out
CommitOrders_None(ords, rows) == ords

\* lines 350-353: every order of every PlanRake, if it exists, becomes assigned
CommitOrders(ords, rows) ==
    [o \in DOMAIN ords |->
        IF \E pr \in rows : o \in pr.orders_assigned THEN "assigned" ELSE ords[o]]

\* lines 345-361: what the handler reports or logs about the rows it found
\* missing or not available: it has no such branch
CommitAnomalies(rks, ords, rows) == {}

\* lines 332-361, one transaction
commit_plan(p) ==
    /\ Len(commit_log[p]) < MaxCommits
    /\ IF p \notin DOMAIN plans
       THEN /\ commit_log' = [commit_log EXCEPT ![p] =
                   Append(@, [code |-> "404", anomalies |-> {}])]
            /\ UNCHANGED <<plans, rakes, orders>>
       ELSE IF AlreadyCommitted(plans[p])
       THEN /\ commit_log' = [commit_log EXCEPT ![p] =
                   Append(@, [code |-> "400", anomalies |-> {}])]
            /\ UNCHANGED <<plans, rakes, orders>>
       ELSE /\ plans' = [plans EXCEPT ![p].committed = TRUE, ![p].committed_at = TRUE]
            /\ rakes' = CommitRakes(rakes, PlanRakesOf(p))
            /\ orders' = CommitOrders(orders, PlanRakesOf(p))
            /\ commit_log' = [commit_log EXCEPT ![p] =
                   Append(@, [code |-> "200",
                              anomalies |-> CommitAnomalies(rakes, orders, PlanRakesOf(p))])]
    /\ UNCHANGED <<planning_jobs, plan_rakes, pc, session_job, plan_result, cancel_reqs,
                   snapshot, stockyards, plannerVars>>

\* ------------------------------------- update_record, delete_record (data.py)
\* the statuses the out-of-band edits of the reference rows move between
RakeStatuses == {"available", "assigned"}
OrderStatuses == {"pending", "assigned"}

\* data.py lines 166-183 on the datasets rakes and orders: the status is set
update_record(dataset, id, status) ==
    /\ \/ /\ dataset = "rakes"
          /\ id \in DOMAIN rakes
          /\ status \in RakeStatuses
          /\ rakes' = [rakes EXCEPT ![id] = status]
          /\ orders' = orders
       \/ /\ dataset = "orders"
          /\ id \in DOMAIN orders
          /\ status \in OrderStatuses
          /\ orders' = [orders EXCEPT ![id] = status]
          /\ rakes' = rakes
    /\ UNCHANGED <<jobVars, stockyards, commit_log, plannerVars>>

\* data.py lines 185-203 on the datasets rakes and orders
delete_record(dataset, id) ==
    /\ \/ /\ dataset = "rakes"
          /\ id \in DOMAIN rakes
          /\ rakes' = [r \in DOMAIN rakes \ {id} |-> rakes[r]]
          /\ orders' = orders
       \/ /\ dataset = "orders"
          /\ id \in DOMAIN orders
          /\ orders' = [o \in DOMAIN orders \ {id} |-> orders[o]]
          /\ rakes' = rakes
    /\ UNCHANGED <<jobVars, stockyards, commit_log, plannerVars>>

\* ------------------------------------------------------------------ Next
Runner(j) ==
    \/ job_query(j)
    \/ job_start(j)
    \/ job_snapshot(j)
    \/ job_commit_loaded(j)
    \/ job_read_running(j)
    \/ job_commit_running(j)
    \/ job_run_planner(j)
    \/ job_read_planned(j)
    \/ job_commit_planned(j)
    \/ job_persist_plan(j)
    \/ job_persist_rakes(j)
    \/ job_read_completed(j)
    \/ job_commit_completed(j)
    \/ job_except_query(j)
    \/ job_commit_failed(j)

Next ==
    \/ \E j \in JobIds, mode \in Modes : generate_plan(j, mode)
    \/ \E j \in JobIds : Runner(j)
    \/ \E j \in JobIds, c \in CancelIds : cancel_job_query(j, c)
    \/ \E j \in JobIds, c \in CancelIds : cancel_job_commit(j, c)

Spec == Init /\ [][Next]_vars

\* the background task of every created job is eventually run to its end
FairSpec == Spec /\ \A j \in JobIds : WF_vars(Runner(j))

\* The job runner together with the commit executor: a plan may be
\* committed as soon as its row is stored.
PlanNext ==
    \/ \E j \in JobIds, mode \in Modes : generate_plan(j, mode)
    \/ \E j \in JobIds : Runner(j)
    \/ \E p \in JobIds : commit_plan(p)

PlanSpec == Init /\ [][PlanNext]_vars

\* The commit executor on the plans of completed jobs, with the edits of the
\* reference rows that the data router allows between two requests.
CompletedJob ==
    [status |-> "completed", progress |-> 100,
     logs |-> <<LogStart, LogLoaded, LogRunning, LogPlanned, LogCompleted>>,
     started_at |-> TRUE, completed_at |-> TRUE, mode |-> "greedy"]

CommitInit ==
    \E n \in PlanIds :
       \E res \in [1..n -> RakePlanSets([orders |-> OrderRowIds, rakes |-> RakeNumbers])] :
          /\ planning_jobs = [j \in 1..n |-> CompletedJob]
          /\ plans = [j \in 1..n |-> NewPlan(j)]
          /\ plan_rakes = UNION {NewPlanRakes(j, [rakes |-> res[j]]) : j \in 1..n}
          /\ pc = [j \in 1..n |-> "done"]
          /\ session_job = [j \in 1..n |-> Expired]
          /\ plan_result = [j \in 1..n |-> [raised |-> FALSE, rakes |-> res[j]]]
          /\ cancel_reqs = [j \in 1..n |-> [c \in CancelIds |-> IdleReq]]
          /\ snapshot = [j \in 1..n |->
                [orders |-> OrderRowIds, rakes |-> RakeNumbers, stockyards |-> StockyardRows]]
          /\ rakes = [r \in RakeNumbers |-> "available"]
          /\ orders = [o \in OrderRowIds |-> "pending"]
          /\ stockyards = StockyardRows
          /\ commit_log = [p \in PlanIds |-> <<>>]
          /\ PlannerIdle

CommitNext ==
    \/ \E p \in PlanIds : commit_plan(p)
    \/ \E id \in RakeNumbers, st \in RakeStatuses : update_record("rakes", id, st)
    \/ \E id \in OrderRowIds, st \in OrderStatuses : update_record("orders", id, st)
    \/ \E id \in RakeNumbers : delete_record("rakes", id)
    \/ \E id \in OrderRowIds : delete_record("orders", id)

CommitSpec == CommitInit /\ [][CommitNext]_vars

\* ================================================================ planner
\* Quantities, capacities, stocks and min_rake_size are Python floats; they
\* are counted here in 1/QtyScale tonnes, so that int() has a fraction to cut.
QtyScale == 2

Tonnes(n) == n * QtyScale

\* int(x) of lines 311 and 314
IntTonnes(q) == q \div QtyScale

\* Money is counted in 1/CostScale, total_cost in 1/(CostScale * WeightScale).
CostScale == 4

WeightScale == 10

\* line 32: freight_rate 2.5, in halves
FreightRate == 5

\* line 33
DemurrageRate == 500

\* line 34
IdleRate == 100

\* lines 28-30: cost_weights 1.0, 0.5, 0.3 in tenths
FreightWeight == 10

DemurrageWeight == 5

IdleWeight == 3

\* lines 27-30: config.get('cost_weights', {}).get(key, default)
cost_weight(config, key, default) ==
    IF "cost_weights" \in DOMAIN config /\ key \in DOMAIN config.cost_weights
    THEN config.cost_weights[key] ELSE default

\* line 249, and the distance of line 322 and line 366
DefaultDistance == 500

\* line 296
MaxSolverOrders == 50

MaxSolverRakes == 20

\* None, where the code has an index or a number
None == 0

Min(S) == CHOOSE i \in S : \A m \in S : i <= m

RECURSIVE SumOver(_, _)
SumOver(f, S) ==
    IF S = {} THEN 0
    ELSE LET x == CHOOSE y \in S : TRUE IN f[x] + SumOver(f, S \ {x})

\* lines 41-44 if the key were the priority alone
KeyLess_PriorityOnly(a, b) == a.priority < b.priority

\* lines 41-44: the sort key (priority, due_date)
KeyLess(a, b) ==
    \/ a.priority < b.priority
    \/ a.priority = b.priority /\ a.due_date < b.due_date

\* lines 41-44: sorted() is stable; the place of order i is the number of
\* orders with a smaller key, or with an equal key and an earlier position
SortedPlace(os, i) ==
    Cardinality({j \in 1..Len(os) :
                    \/ KeyLess(os[j], os[i])
                    \/ ~KeyLess(os[i], os[j]) /\ j < i}) + 1

sorted_orders(os) ==
    [k \in 1..Len(os) |-> os[CHOOSE i \in 1..Len(os) : SortedPlace(os, i) = k]]

\* line 46 and line 294
available_rakes(rks) == SelectSeq(rks, LAMBDA r : r.status = "available")

\* lines 238-247: the great-circle distance, here the distance of two
\* positions on a line, in steps of 100 km
Haversine(a, b) == 100 * (IF a >= b THEN a - b ELSE b - a)

\* lines 233-249: a position of 0 stands for coordinates that are None or 0
calculate_distance(origin_pos, destination_pos) ==
    IF origin_pos # 0 /\ destination_pos # 0
    THEN Haversine(origin_pos, destination_pos)
    ELSE DefaultDistance

\* lines 209-211
Sufficient(inventory, code, product_code, required_qty) ==
    /\ code \in DOMAIN inventory
    /\ product_code \in DOMAIN inventory[code]
    /\ inventory[code][product_code] >= required_qty

\* line 216 if the candidates were always ranked by their stock
HasDestinationCoordinates_Never(order) == FALSE

\* line 216: the order has a destination latitude and longitude
HasDestinationCoordinates(order) == order.destination_pos # 0

\* lines 194-231: the index of the chosen stockyard, or None
select_source_stockyard(order, sys, inventory) ==
    IF order.source_stockyard_id # None
    THEN LET hits == {k \in 1..Len(sys) : sys[k].id = order.source_stockyard_id}
         IN  IF hits = {} THEN None ELSE Min(hits)
    ELSE LET candidates == {k \in 1..Len(sys) :
                 Sufficient(inventory, sys[k].code, order.product_code, order.quantity_tonnes)}
             dist(k) == calculate_distance(sys[k].pos, order.destination_pos)
             stock(k) == inventory[sys[k].code][order.product_code]
         IN  IF candidates = {} THEN None
             ELSE IF HasDestinationCoordinates(order)
             THEN Min({k \in candidates : \A m \in candidates : dist(k) <= dist(m)})
             ELSE Min({k \in candidates : \A m \in candidates : stock(k) >= stock(m)})

\* lines 107-111
EmptyPack ==
    [current_weight |-> 0, rake_orders |-> <<>>, destinations |-> {},
     origin_stockyard |-> None, freight_cost |-> 0]

\* line 114
AlreadyAssigned(order, assigned) == order.id \in assigned

\* line 119 without the test
ExceedsCapacity_Never(current_weight, order_weight, rake_capacity) == FALSE

\* line 119
ExceedsCapacity(current_weight, order_weight, rake_capacity) ==
    current_weight + order_weight > rake_capacity

\* line 124 without the test
OtherDestination_Never(config, destinations, destination) == FALSE

\* line 124
OtherDestination(config, destinations, destination) ==
    /\ ~config.allow_multi_destination
    /\ destinations # {}
    /\ destination \notin destinations

\* lines 140-142 without the test of the amount
StockAvailable_Any(inventory, code, product_code, order_weight) ==
    product_code \in DOMAIN inventory[code]

\* lines 140-142
StockAvailable(inventory, code, product_code, order_weight) ==
    /\ product_code \in DOMAIN inventory[code]
    /\ inventory[code][product_code] >= order_weight

\* lines 136-137 without the test
OtherOrigin_Never(sys, origin_stockyard, source_sy) == FALSE

\* lines 134-137: an origin is set and the source is another stockyard
OtherOrigin(sys, origin_stockyard, source_sy) ==
    /\ origin_stockyard # None
    /\ sys[source_sy].code # sys[origin_stockyard].code

\* lines 113-164: one iteration of the loop of _pack_rake
pack_order(config, rake, order, assigned, sys, pack, inventory) ==
    LET skip == [pack |-> pack, inventory |-> inventory]
        order_weight == order.quantity_tonnes
        source_sy == select_source_stockyard(order, sys, inventory)
    IN  IF AlreadyAssigned(order, assigned) THEN skip
        ELSE IF ExceedsCapacity(pack.current_weight, order_weight, rake.total_capacity_tonnes)
        THEN skip
        ELSE IF OtherDestination(config, pack.destinations, order.destination) THEN skip
        ELSE IF source_sy = None THEN skip
        ELSE IF OtherOrigin(sys, pack.origin_stockyard, source_sy) THEN skip
        ELSE LET code == sys[source_sy].code
                 product_code == order.product_code
                 withOrigin == [pack EXCEPT !.origin_stockyard =
                                   IF @ = None THEN source_sy ELSE @]
                 order_freight == calculate_distance(sys[source_sy].pos, order.destination_pos)
                                     * order_weight * FreightRate
             IN  IF ~StockAvailable(inventory, code, product_code, order_weight)
                 THEN [pack |-> withOrigin, inventory |-> inventory]
                 ELSE [pack |->
                          [withOrigin EXCEPT
                              !.current_weight = @ + order_weight,
                              !.destinations = @ \cup {order.destination},
                              !.freight_cost = @ + order_freight,
                              !.rake_orders = Append(@,
                                  [order_id |-> order.id,
                                   product_code |-> product_code,
                                   quantity |-> order_weight,
                                   destination |-> order.destination,
                                   freight_cost |-> order_freight])],
                       inventory |-> [inventory EXCEPT ![code][product_code] = @ - order_weight]]

\* line 167
NoRakePlan == [rake_number |-> None]

\* line 172 if a rake at exactly 75% paid demurrage
UnderUtilized_Inclusive(current_weight, rake_capacity) ==
    100 * current_weight <= 75 * rake_capacity

\* lines 169-172: utilization < 75
UnderUtilized(current_weight, rake_capacity) ==
    100 * current_weight < 75 * rake_capacity

\* lines 166-192
rake_plan_of(rake, sys, pack) ==
    IF pack.rake_orders = <<>> THEN NoRakePlan
    ELSE [rake_number |-> rake.rake_number,
          origin_stockyard_code |->
              IF pack.origin_stockyard # None THEN sys[pack.origin_stockyard].code ELSE "None",
          destinations |-> pack.destinations,
          orders |-> pack.rake_orders,
          order_ids |-> [i \in 1..Len(pack.rake_orders) |-> pack.rake_orders[i].order_id],
          total_weight |-> pack.current_weight,
          capacity |-> rake.total_capacity_tonnes,
          freight_cost |-> pack.freight_cost,
          demurrage_cost |->
              IF UnderUtilized(pack.current_weight, rake.total_capacity_tonnes)
              THEN CostScale * DemurrageRate * 24 ELSE 0,
          idle_cost |-> CostScale * IdleRate * (Len(pack.rake_orders) * 2)]

\* lines 52-56
EmptyPlan ==
    [plan_rakes |-> <<>>, assigned_orders |-> {},
     total_freight |-> 0, total_demurrage |-> 0, total_idle |-> 0]

Range(s) == {s[i] : i \in 1..Len(s)}

\* lines 67-75
keep_rake(config, plan, rake_plan) ==
    IF rake_plan # NoRakePlan /\ rake_plan.total_weight >= config.min_rake_size
    THEN [plan_rakes |-> Append(plan.plan_rakes, rake_plan),
          assigned_orders |-> plan.assigned_orders \cup Range(rake_plan.order_ids),
          total_freight |-> plan.total_freight + rake_plan.freight_cost,
          total_demurrage |-> plan.total_demurrage + rake_plan.demurrage_cost,
          total_idle |-> plan.total_idle + rake_plan.idle_cost]
    ELSE plan

\* lines 77-95
plan_payload(config, plan, os) ==
    [rakes |-> plan.plan_rakes,
     total_cost |-> cost_weight(config, "freight", FreightWeight) * plan.total_freight
                    + cost_weight(config, "demurrage", DemurrageWeight) * plan.total_demurrage
                    + cost_weight(config, "idle", IdleWeight) * plan.total_idle,
     freight_cost |-> plan.total_freight,
     demurrage_cost |-> plan.total_demurrage,
     idle_cost |-> plan.total_idle,
     orders_fulfilled |-> Cardinality(plan.assigned_orders),
     total_orders |-> Len(os),
     algorithm |-> "greedy"]

\* lines 113-164: the loop of _pack_rake from order i on
RECURSIVE PackSweep(_, _, _, _, _, _, _)
PackSweep(config, rake, sorted, assigned, sys, i, st) ==
    IF i > Len(sorted) THEN st
    ELSE LET next == pack_order(config, rake, sorted[i], assigned, sys, st.pack, st.inventory)
         IN  \* a skipped order leaves the pack and the ledger as they are; the
             \* comparison settles each step before the next one starts
             IF next = st THEN PackSweep(config, rake, sorted, assigned, sys, i + 1, st)
             ELSE PackSweep(config, rake, sorted, assigned, sys, i + 1, next)

\* lines 58-75: the loop over the available rakes from rake j on
RECURSIVE RakeLoop(_, _, _, _, _, _)
RakeLoop(config, sorted, sys, available, j, gs) ==
    IF j > Len(available) \/ Cardinality(gs.plan.assigned_orders) >= Len(sorted)
    THEN gs
    ELSE LET sw == PackSweep(config, available[j], sorted, gs.plan.assigned_orders, sys, 1,
                       [pack |-> EmptyPack, inventory |-> gs.inventory])
         IN  RakeLoop(config, sorted, sys, available, j + 1,
                 [plan |-> keep_rake(config, gs.plan, rake_plan_of(available[j], sys, sw.pack)),
                  inventory |-> sw.inventory])

\* lines 36-95: GreedyPlanner.plan as a function of its arguments;
\* current_inventory is the value of the stockyards' inventory dicts
GreedyPlan(config, os, sys, rks, current_inventory) ==
    plan_payload(config,
        RakeLoop(config, sorted_orders(os), sys, available_rakes(rks), 1,
                 [plan |-> EmptyPlan, inventory |-> current_inventory]).plan,
        os)

\* ------------------------------------------------------------- ORToolsPlanner
\* lines 302-305: a value of the decision variables is the set of the pairs
\* (order i, rake j) with x[i, j] = 1
Assignments(n, m) == SUBSET ((1..n) \X (1..m))

\* lines 307-308 left out
AtMostOneRake_Free(x, n, m) == TRUE

\* lines 307-308
AtMostOneRake(x, n, m) ==
    \A i \in 1..n : Cardinality({j \in 1..m : <<i, j>> \in x}) <= 1

\* lines 310-317
WithinCapacity(x, os, available) ==
    \A j \in 1..Len(available) :
       SumOver([i \in 1..Len(os) |-> IntTonnes(os[i].quantity_tonnes)],
               {i \in 1..Len(os) : <<i, j>> \in x})
          <= IntTonnes(available[j].total_capacity_tonnes)

\* the pairs (i, j) that lines 310-317 allow on their own: an order larger
\* than a rake is in no solution
Fits(os, available) ==
    {pr \in (1..Len(os)) \X (1..Len(available)) :
        IntTonnes(os[pr[1]].quantity_tonnes)
           <= IntTonnes(available[pr[2]].total_capacity_tonnes)}

\* lines 307-317: the solutions of the model
Feasible(os, available) ==
    {x \in SUBSET Fits(os, available) :
        /\ AtMostOneRake(x, Len(os), Len(available))
        /\ WithinCapacity(x, os, available)}

\* lines 319-325: int(quantity * 500), summed over the pairs of x
Objective(x, os) ==
    SumOver([pr \in x |-> (os[pr[1]].quantity_tonnes * DefaultDistance) \div QtyScale], x)

\* lines 327-329: what Solve can answer within its 30 seconds: a solution it
\* proved optimal, a solution it found, or no solution
SolverOutcomes(os, available) ==
    LET F == Feasible(os, available)
        best == Min({Objective(x, os) : x \in F})
    IN  {[status |-> "OPTIMAL", x |-> x] : x \in {y \in F : Objective(y, os) = best}}
        \cup {[status |-> "FEASIBLE", x |-> x] : x \in F}
        \cup {[status |-> "UNKNOWN", x |-> {}]}

\* lines 353-361 for rake j
SolverOrders(x, os, j) == SelectSeq([i \in 1..Len(os) |-> [i |-> i, o |-> os[i]]],
                                    LAMBDA e : <<e.i, j>> \in x)

\* lines 363-394 for rake j
extract_rake(rake, rake_orders) ==
    LET total_weight == SumOver([k \in 1..Len(rake_orders) |-> rake_orders[k].o.quantity_tonnes],
                                1..Len(rake_orders))
    IN  [rake_number |-> rake.rake_number,
         origin_stockyard_code |-> "None",
         destinations |-> {rake_orders[k].o.destination : k \in 1..Len(rake_orders)},
         orders |-> [k \in 1..Len(rake_orders) |->
                       [order_id |-> rake_orders[k].o.id,
                        product_code |-> rake_orders[k].o.product_code,
                        quantity |-> rake_orders[k].o.quantity_tonnes,
                        destination |-> rake_orders[k].o.destination,
                        freight_cost |-> 0]],
         order_ids |-> [k \in 1..Len(rake_orders) |-> rake_orders[k].o.id],
         total_weight |-> total_weight,
         capacity |-> rake.total_capacity_tonnes,
         freight_cost |-> total_weight * DefaultDistance * FreightRate,
         demurrage_cost |-> 0,
         idle_cost |-> 0]

\* lines 350-394: the loop over the rakes from rake j on
RECURSIVE ExtractLoop(_, _, _, _, _, _)
ExtractLoop(config, x, os, available, j, plan) ==
    IF j > Len(available) THEN plan
    ELSE LET rake_orders == SolverOrders(x, os, j)
             counted == plan.assigned_orders
                          \cup {rake_orders[k].o.id : k \in 1..Len(rake_orders)}
             rp == extract_rake(available[j], rake_orders)
         IN  ExtractLoop(config, x, os, available, j + 1,
                 IF rake_orders # <<>> /\ rp.total_weight >= config.min_rake_size
                 THEN [plan EXCEPT !.plan_rakes = Append(@, rp),
                                   !.assigned_orders = counted,
                                   !.total_freight = @ + rp.freight_cost]
                 ELSE [plan EXCEPT !.assigned_orders = counted])

\* lines 341-409
extract_solution(config, x, os, available) ==
    LET plan == ExtractLoop(config, x, os, available, 1, EmptyPlan)
    IN  [rakes |-> plan.plan_rakes,
         total_cost |-> WeightScale * plan.total_freight,
         freight_cost |-> plan.total_freight,
         demurrage_cost |-> 0,
         idle_cost |-> 0,
         orders_fulfilled |-> Cardinality(plan.assigned_orders),
         total_orders |-> Len(os),
         algorithm |-> "or-tools (CP-SAT)"]

\* line 296 if every rake counted toward the 20
TooLarge_AllRakes(os, rks) ==
    Len(os) > MaxSolverOrders \/ Len(rks) > MaxSolverRakes

\* line 296
TooLarge(os, rks) ==
    Len(os) > MaxSolverOrders \/ Len(available_rakes(rks)) > MaxSolverRakes

\* the exception the caller of the planner sees
Raised == [algorithm |-> "raised"]

\* lines 287-339: ORToolsPlanner.plan; outcome is what the solver answered
\* (not consulted above the scale guard), or an exception raised on the way
ORToolsPlan(config, os, sys, rks, current_inventory, outcome) ==
    IF TooLarge(os, rks)
    THEN [GreedyPlan(config, os, sys, rks, current_inventory)
             EXCEPT !.algorithm = "or-tools (greedy fallback for large instance)"]
    ELSE IF outcome.status = "ERROR" THEN Raised
    ELSE IF outcome.status \in {"OPTIMAL", "FEASIBLE"}
    THEN extract_solution(config, outcome.x, os, available_rakes(rks))
    ELSE [GreedyPlan(config, os, sys, rks, current_inventory)
             EXCEPT !.algorithm = "or-tools (no solution, greedy fallback)"]

\* line 430 if the dispatcher also took the name optimal
IsORToolsMode_Optimal(mode) == mode \in {"or-tools", "optimal"}

\* line 430
IsORToolsMode(mode) == mode = "or-tools"

\* line 442 if a tie went to the CP-SAT result
ORToolsBetter_OnTie(ortools_result, greedy_result) ==
    ortools_result.total_cost <= greedy_result.total_cost

\* line 442
ORToolsBetter(ortools_result, greedy_result) ==
    ortools_result.total_cost < greedy_result.total_cost

\* lines 412-453
RunPlanner(mode, config, os, sys, rks, current_inventory, outcome) ==
    IF mode = "greedy" THEN GreedyPlan(config, os, sys, rks, current_inventory)
    ELSE IF IsORToolsMode(mode)
    THEN ORToolsPlan(config, os, sys, rks, current_inventory, outcome)
    ELSE IF mode = "hybrid"
    THEN LET greedy_result == GreedyPlan(config, os, sys, rks, current_inventory)
             ortools_result == ORToolsPlan(config, os, sys, rks, current_inventory, outcome)
         IN  IF ortools_result = Raised
             THEN [greedy_result EXCEPT !.algorithm = "hybrid (greedy only)"]
             ELSE IF ORToolsBetter(ortools_result, greedy_result)
             THEN [ortools_result EXCEPT !.algorithm = "hybrid (or-tools better)"]
             ELSE [greedy_result EXCEPT !.algorithm = "hybrid (greedy better)"]
    ELSE Raised

\* ------------------------------------------ GreedyPlanner.plan, step by step
Runs == {"run1", "run2"}

IdleRun == [phase |-> "idle"]

NoPayload == [algorithm |-> "none"]

\* lines 48-50 without dict(): the ledger is the snapshot's own dict objects
LedgerOwner_Shared(r) == "snapshot"

\* lines 48-50: dict(...) gives the run dict objects of its own
LedgerOwner(r) == r

\* lines 41-56
plan_begin(r) ==
    /\ gp[r].phase = "idle"
    /\ gp' = [gp EXCEPT ![r] =
          [phase |-> "loop",
           sorted_orders |-> sorted_orders(inp.orders),
           available_rakes |-> available_rakes(inp.rakes),
           stockyard_inventory |-> LedgerOwner(r),
           plan |-> EmptyPlan,
           j |-> 1, i |-> 0, pack |-> EmptyPack]]
    /\ dicts' = [o \in DOMAIN dicts \cup {LedgerOwner(r)} |->
          IF o = LedgerOwner(r)
          THEN [code \in {inp.stockyards[k].code : k \in 1..Len(inp.stockyards)} |->
                   dicts["snapshot"][code]]
          ELSE dicts[o]]
    /\ UNCHANGED <<jobVars, refVars, commit_log, inp, result>>

\* lines 58-65: the loop ends, or _pack_rake is entered for the next rake
plan_next_rake(r) ==
    /\ gp[r].phase = "loop"
    /\ IF \/ gp[r].j > Len(gp[r].available_rakes)
          \/ Cardinality(gp[r].plan.assigned_orders) >= Len(gp[r].sorted_orders)
       THEN gp' = [gp EXCEPT ![r].phase = "return"]
       ELSE gp' = [gp EXCEPT ![r].phase = "pack", ![r].i = 1, ![r].pack = EmptyPack]
    /\ UNCHANGED <<jobVars, refVars, commit_log, inp, result, dicts>>

\* lines 113-164: one order of the sweep
pack_rake_order(r) ==
    /\ gp[r].phase = "pack"
    /\ gp[r].i <= Len(gp[r].sorted_orders)
    /\ LET st == pack_order(inp.config, gp[r].available_rakes[gp[r].j],
                            gp[r].sorted_orders[gp[r].i], gp[r].plan.assigned_orders,
                            inp.stockyards, gp[r].pack, dicts[gp[r].stockyard_inventory])
       IN  /\ gp' = [gp EXCEPT ![r].pack = st.pack, ![r].i = @ + 1]
           /\ dicts' = [dicts EXCEPT ![gp[r].stockyard_inventory] = st.inventory]
    /\ UNCHANGED <<jobVars, refVars, commit_log, inp, result>>

\* lines 166-192, then lines 67-75
pack_rake_return(r) ==
    /\ gp[r].phase = "pack"
    /\ gp[r].i > Len(gp[r].sorted_orders)
    /\ gp' = [gp EXCEPT
          ![r].plan = keep_rake(inp.config, @,
                         rake_plan_of(gp[r].available_rakes[gp[r].j], inp.stockyards, gp[r].pack)),
          ![r].j = @ + 1,
          ![r].phase = "loop"]
    /\ UNCHANGED <<jobVars, refVars, commit_log, inp, result, dicts>>

\* lines 77-95
plan_return(r) ==
    /\ gp[r].phase = "return"
    /\ result' = [result EXCEPT ![r] = plan_payload(inp.config, gp[r].plan, inp.orders)]
    /\ gp' = [gp EXCEPT ![r].phase = "done"]
    /\ UNCHANGED <<jobVars, refVars, commit_log, inp, dicts>>

GreedyRun(r) ==
    \/ plan_begin(r)
    \/ plan_next_rake(r)
    \/ pack_rake_order(r)
    \/ pack_rake_return(r)
    \/ plan_return(r)

\* ------------------------------------------------------------ planner inputs
MaxOrders == 2

MaxFleet == 2

\* the orders of a run: the templates in the given sequence, with ids 1..n
OrdersOf(ts) ==
    [i \in 1..Len(ts) |->
        [id |-> i,
         product_code |-> ts[i].product_code,
         quantity_tonnes |-> ts[i].quantity_tonnes,
         source_stockyard_id |-> ts[i].source_stockyard_id,
         destination |-> ts[i].destination,
         destination_pos |-> ts[i].destination_pos,
         priority |-> ts[i].priority,
         due_date |-> ts[i].due_date]]

\* the rakes of a run: available rakes 1..n of the given capacities
RakesOf(cs) ==
    [j \in 1..Len(cs) |->
        [rake_number |-> j, total_capacity_tonnes |-> cs[j], status |-> "available"]]

SeqsUpTo(S, n) == UNION {[1..k -> S] : k \in 0..n}

\* two stockyards without coordinates
TwoStockyards ==
    <<[id |-> 1, code |-> "SY001", pos |-> 0], [id |-> 2, code |-> "SY002", pos |-> 0]>>

Coal(q) == [p \in {"COAL"} |-> q]

NoStock == [p \in {} |-> 0]

\* Inputs of the greedy runs: small orders of one product to two
\* destinations, pinned to SY002 or not; SY002 may not list the product.
GreedyTemplates ==
    [product_code : {"COAL"}, quantity_tonnes : {1, 2},
     source_stockyard_id : {None, 2}, destination : {"Dest1", "Dest2"},
     destination_pos : {0}, priority : {3}, due_date : {1}]

GreedyInventories ==
    {[c \in {"SY001", "SY002"} |-> IF c = "SY001" THEN Coal(a) ELSE b] :
        a \in {1, 3}, b \in {NoStock, Coal(2)}}

GreedyFamily ==
    {[args |-> [orders |-> OrdersOf(ts), stockyards |-> TwoStockyards,
                rakes |-> RakesOf(cs),
                config |-> [min_rake_size |-> m, allow_multi_destination |-> FALSE]],
      current_inventory |-> inv] :
        ts \in SeqsUpTo(GreedyTemplates, MaxOrders),
        cs \in SeqsUpTo({2, 3}, MaxFleet),
        m \in {1, 3},
        inv \in GreedyInventories}

\* the scenarios of the specification, in tonnes
ScenarioOrder(q, dest) ==
    [product_code |-> "COAL", quantity_tonnes |-> Tonnes(q), source_stockyard_id |-> None,
     destination |-> dest, destination_pos |-> 0, priority |-> 3, due_date |-> 1]

ScenarioInput(ts, stock, multi) ==
    [args |-> [orders |-> OrdersOf(ts),
               stockyards |-> <<[id |-> 1, code |-> "SY001", pos |-> 0]>>,
               rakes |-> RakesOf(<<Tonnes(3480)>>),
               config |-> [min_rake_size |-> Tonnes(1000), allow_multi_destination |-> multi]],
     current_inventory |-> [c \in {"SY001"} |-> Coal(Tonnes(stock))]]

ThreeOrders ==
    <<ScenarioOrder(2500, "Dest1"), ScenarioOrder(500, "Dest1"), ScenarioOrder(500, "Dest2")>>

SingleDestScenario == ScenarioInput(ThreeOrders, 30000, FALSE)

MultiDestScenario == ScenarioInput(ThreeOrders, 30000, TRUE)

StarvationScenario == ScenarioInput(<<ScenarioOrder(2500, "Dest1")>>, 2000, FALSE)

\* the three orders with allow_multi_destination on a rake that holds them all
RoomyMultiDestScenario ==
    [MultiDestScenario EXCEPT !.args.rakes = RakesOf(<<Tonnes(3500)>>)]

\* two orders of 2500 t and 2000 t to Dest1 on RK001
SimplePackScenario ==
    ScenarioInput(<<ScenarioOrder(2500, "Dest1"), ScenarioOrder(2000, "Dest1")>>, 30000, FALSE)

\* orders on one rake of 2 t, filled to a quarter, a half, three quarters or
\* wholly
UtilizationFamily ==
    {[args |-> [orders |-> OrdersOf(ts), stockyards |-> TwoStockyards,
                rakes |-> RakesOf(<<4>>),
                config |-> [min_rake_size |-> 1, allow_multi_destination |-> FALSE]],
      current_inventory |-> [c \in {"SY001", "SY002"} |-> IF c = "SY001" THEN Coal(4) ELSE NoStock]] :
        ts \in SeqsUpTo([product_code : {"COAL"}, quantity_tonnes : {1, 2},
                         source_stockyard_id : {None}, destination : {"Dest1"},
                         destination_pos : {0}, priority : {3}, due_date : {1}], MaxOrders)}

\* two stockyards with coordinates
PlacedStockyards ==
    <<[id |-> 1, code |-> "SY001", pos |-> 1], [id |-> 2, code |-> "SY002", pos |-> 3]>>

\* orders with or without destination coordinates, pinned to SY001 or not,
\* on one rake; the destination is nearer to SY002, and either stockyard may
\* hold more
SourceFamily ==
    {[args |-> [orders |-> OrdersOf(ts), stockyards |-> PlacedStockyards,
                rakes |-> RakesOf(<<3>>),
                config |-> [min_rake_size |-> 1, allow_multi_destination |-> FALSE]],
      current_inventory |-> [c \in {"SY001", "SY002"} |-> IF c = "SY001" THEN Coal(a) ELSE Coal(b)]] :
        ts \in SeqsUpTo([product_code : {"COAL"}, quantity_tonnes : {1, 2},
                         source_stockyard_id : {None, 1}, destination : {"Dest1"},
                         destination_pos : {0, 4}, priority : {3}, due_date : {1}], MaxOrders),
        a \in {1, 3}, b \in {1, 3}}

\* orders of two priorities and two due dates on one rake
PriorityFamily ==
    {[args |-> [orders |-> OrdersOf(ts), stockyards |-> TwoStockyards,
                rakes |-> RakesOf(<<3>>),
                config |-> [min_rake_size |-> 1, allow_multi_destination |-> FALSE]],
      current_inventory |-> [c \in {"SY001", "SY002"} |-> IF c = "SY001" THEN Coal(3) ELSE NoStock]] :
        ts \in SeqsUpTo([product_code : {"COAL"}, quantity_tonnes : {1, 2},
                         source_stockyard_id : {None}, destination : {"Dest1"},
                         destination_pos : {0}, priority : {1, 2}, due_date : {1, 2}], MaxOrders)}

GreedyInputs ==
    GreedyFamily \cup UtilizationFamily \cup SourceFamily \cup PriorityFamily
       \cup {SingleDestScenario, MultiDestScenario, StarvationScenario,
             RoomyMultiDestScenario, SimplePackScenario}

PlannerInit(inputs, runs) ==
    /\ TablesInit
    /\ \E input \in inputs :
          /\ inp = input.args
          /\ dicts = [o \in {"snapshot"} |-> input.current_inventory]
    /\ gp = [r \in runs |-> IdleRun]
    /\ result = [r \in runs |-> NoPayload]

\* one run of GreedyPlanner.plan on each input
GreedyInit == PlannerInit(GreedyInputs, {"run1"})

GreedyNext == \E r \in {"run1"} : GreedyRun(r)

GreedySpec == GreedyInit /\ [][GreedyNext]_vars

\* two runs of GreedyPlanner.plan on the same arguments, interleaved
ConcurrentFamily ==
    {[args |-> [orders |-> OrdersOf(ts), stockyards |-> TwoStockyards,
                rakes |-> RakesOf(cs),
                config |-> [min_rake_size |-> 1, allow_multi_destination |-> FALSE]],
      current_inventory |-> inv] :
        ts \in SeqsUpTo([product_code : {"COAL"}, quantity_tonnes : {1, 2},
                         source_stockyard_id : {None}, destination : {"Dest1"},
                         destination_pos : {0}, priority : {3}, due_date : {1}], MaxOrders),
        cs \in SeqsUpTo({3}, MaxFleet),
        inv \in {[c \in {"SY001", "SY002"} |-> IF c = "SY001" THEN Coal(a) ELSE NoStock] :
                    a \in {2, 3}}}

ConcurrentInit == PlannerInit(ConcurrentFamily, Runs)

ConcurrentNext == \E r \in Runs : GreedyRun(r)

ConcurrentSpec == ConcurrentInit /\ [][ConcurrentNext]_vars

\* ------------------------------------------------------------- run_planner
\* what the solver can answer to a call in this mode on these arguments
OutcomesFor(mode, args) ==
    IF (IsORToolsMode(mode) \/ mode = "hybrid") /\ ~TooLarge(args.orders, args.rakes)
    THEN SolverOutcomes(args.orders, available_rakes(args.rakes))
            \cup {[status |-> "ERROR", x |-> {}]}
    ELSE {[status |-> "NOT_CALLED", x |-> {}]}

\* lines 412-453, one call
run_planner(r, mode) ==
    /\ gp[r].phase = "idle"
    /\ result[r] = NoPayload
    /\ \E outcome \in OutcomesFor(mode, inp) :
          /\ result' = [result EXCEPT ![r] =
                RunPlanner(mode, inp.config, inp.orders, inp.stockyards, inp.rakes,
                           dicts["snapshot"], outcome)]
          /\ gp' = [gp EXCEPT ![r] = [phase |-> "called", mode |-> mode, outcome |-> outcome]]
    /\ UNCHANGED <<jobVars, refVars, commit_log, inp, dicts>>

\* Inputs of the dispatcher: orders of 0.5 t and 1.5 t, rakes of 2 t and
\* 2.5 t, and one fleet above the scale guard.
DispatchFamily ==
    {[args |-> [orders |-> OrdersOf(ts), stockyards |-> TwoStockyards,
                rakes |-> RakesOf(cs),
                config |-> [min_rake_size |-> m, allow_multi_destination |-> FALSE]],
      current_inventory |-> inv] :
        ts \in SeqsUpTo([product_code : {"COAL"}, quantity_tonnes : {1, 3},
                         source_stockyard_id : {None}, destination : {"Dest1"},
                         destination_pos : {0}, priority : {3}, due_date : {1}], MaxOrders),
        cs \in SeqsUpTo({4, 5}, MaxFleet),
        m \in {1, 4},
        inv \in {[c \in {"SY001", "SY002"} |-> IF c = "SY001" THEN Coal(a) ELSE NoStock] :
                    a \in {3, 6}}}

LargeFleet ==
    [args |-> [orders |-> OrdersOf(<<[product_code |-> "COAL", quantity_tonnes |-> 3,
                                      source_stockyard_id |-> None, destination |-> "Dest1",
                                      destination_pos |-> 0, priority |-> 3, due_date |-> 1]>>),
               stockyards |-> TwoStockyards,
               rakes |-> RakesOf([j \in 1..(MaxSolverRakes + 1) |-> 4]),
               config |-> [min_rake_size |-> 1, allow_multi_destination |-> FALSE]],
     current_inventory |-> [c \in {"SY001", "SY002"} |-> IF c = "SY001" THEN Coal(6) ELSE NoStock]]

\* configured cost_weights, in tenths: freight alone, or all three
WeightedConfigs ==
    {[min_rake_size |-> 1, allow_multi_destination |-> FALSE, cost_weights |-> w] :
        w \in {[k \in {"freight"} |-> 20], [freight |-> 5, demurrage |-> 10, idle |-> 0]}}

WeightedFamily ==
    {[args |-> [orders |-> OrdersOf(ts), stockyards |-> TwoStockyards,
                rakes |-> RakesOf(cs), config |-> config],
      current_inventory |-> [c \in {"SY001", "SY002"} |-> IF c = "SY001" THEN Coal(6) ELSE NoStock]] :
        ts \in SeqsUpTo([product_code : {"COAL"}, quantity_tonnes : {1, 3},
                         source_stockyard_id : {None}, destination : {"Dest1"},
                         destination_pos : {0}, priority : {3}, due_date : {1}], MaxOrders),
        cs \in SeqsUpTo({4}, MaxFleet),
        config \in WeightedConfigs}

GuardOrder(q) ==
    [product_code |-> "COAL", quantity_tonnes |-> q, source_stockyard_id |-> None,
     destination |-> "Dest1", destination_pos |-> 0, priority |-> 3, due_date |-> 1]

GuardInput(os, rks) ==
    [args |-> [orders |-> os, stockyards |-> TwoStockyards, rakes |-> rks,
               config |-> [min_rake_size |-> 1, allow_multi_destination |-> FALSE]],
     current_inventory |-> [c \in {"SY001", "SY002"} |-> IF c = "SY001" THEN Coal(6) ELSE NoStock]]

\* one order more than the solver takes
ManyOrders ==
    GuardInput(OrdersOf([i \in 1..(MaxSolverOrders + 1) |-> GuardOrder(3)]), RakesOf(<<4>>))

\* as many orders and available rakes as the solver takes, and a rake under
\* maintenance; only the first order fits a rake, the first one
AtGuard ==
    GuardInput(OrdersOf([i \in 1..MaxSolverOrders |-> GuardOrder(IF i = 1 THEN 3 ELSE 6)]),
               [j \in 1..(MaxSolverRakes + 1) |->
                   [rake_number |-> j,
                    total_capacity_tonnes |-> IF j \in {1, MaxSolverRakes + 1} THEN 4 ELSE 1,
                    status |-> IF j = MaxSolverRakes + 1 THEN "maintenance" ELSE "available"]])

DispatchInputs == DispatchFamily \cup WeightedFamily \cup {LargeFleet, ManyOrders, AtGuard}

DispatchInit == PlannerInit(DispatchInputs, {"run1"})

DispatchNext == \E mode \in Modes : run_planner("run1", mode)

DispatchSpec == DispatchInit /\ [][DispatchNext]_vars

\* A job and a call of run_planner when no order is pending: the order rows
\* are all assigned, or the table is empty, and the planner is called on an
\* empty order list with some rakes, under the default and a weighted config.
EmptyOrderInputs ==
    {[args |-> [orders |-> <<>>, stockyards |-> TwoStockyards,
                rakes |-> RakesOf(cs), config |-> config],
      current_inventory |-> [c \in {"SY001", "SY002"} |-> IF c = "SY001" THEN Coal(6) ELSE NoStock]] :
        cs \in SeqsUpTo({4}, MaxFleet),
        config \in {[min_rake_size |-> 1, allow_multi_destination |-> FALSE]}
                      \cup WeightedConfigs}

EmptyOrdersInit ==
    /\ \E order_rows \in {[o \in OrderRowIds |-> "assigned"], <<>>} : TablesWith(order_rows)
    /\ \E input \in EmptyOrderInputs :
          /\ inp = input.args
          /\ dicts = [o \in {"snapshot"} |-> input.current_inventory]
    /\ gp = [r \in {"run1"} |-> IdleRun]
    /\ result = [r \in {"run1"} |-> NoPayload]

EmptyOrdersNext ==
    \/ \E j \in JobIds, mode \in Modes : generate_plan(j, mode)
    \/ \E j \in JobIds : Runner(j)
    \/ \E mode \in Modes : run_planner("run1", mode)

EmptyOrdersSpec == EmptyOrdersInit /\ [][EmptyOrdersNext]_vars

\* ================================================================ claims
IsPrefix(s, t) == Len(s) <= Len(t) /\ SubSeq(t, 1, Len(s)) = s

Last(s) == s[Len(s)]

\* C1: once the status of a job is completed, failed or cancelled, no step
\* of the runner or of cancel_job changes it.
C1_TerminalAbsorbing ==
    [][\A j \in DOMAIN planning_jobs :
          planning_jobs[j].status \in Terminal
             => planning_jobs'[j].status = planning_jobs[j].status]_vars

\* C2: whenever the Plan row of a job is stored, every PlanRake row of the
\* runner's plan result is stored too.
C2_PlanWithAllRakes ==
    \A p \in DOMAIN plans : NewPlanRakes(p, plan_result[p]) \subseteq plan_rakes

\* C3: a Plan row exists only for a job whose status is completed.
C3_PlanOnlyIfCompleted ==
    \A p \in DOMAIN plans : planning_jobs[plans[p].job_id].status = "completed"

\* C4: a runner that observed the status cancelled at a checkpoint writes
\* nothing more for the job: the job row, the plans and the plan rakes stay
\* as they are in each of its later steps.
C4_CancelObserved ==
    [][\A j \in DOMAIN planning_jobs :
          (session_job[j].status = "cancelled" /\ pc'[j] # pc[j])
             => /\ planning_jobs'[j] = planning_jobs[j]
                /\ plans' = plans
                /\ plan_rakes' = plan_rakes]_vars

\* C5: cancel_job answers 404 for an unknown job and 400 for a job whose
\* status is completed, failed or cancelled, leaving the row unchanged in
\* both cases; for a queued or running job it goes on to its commit, which
\* answers 200, sets status cancelled and completed_at, appends exactly one
\* line to the log it read and touches no other column.
C5_CancelJob ==
    [][\A j \in JobIds, c \in CancelIds :
          LET r == cancel_reqs[j][c]
              r2 == cancel_reqs'[j][c]
          IN  /\ (r.pc = "idle" /\ r2.pc # "idle") =>
                    /\ planning_jobs' = planning_jobs
                    /\ ~Exists(j) => (r2.pc = "done" /\ r2.response = "404")
                    /\ (Exists(j) /\ planning_jobs[j].status \in Terminal)
                          => (r2.pc = "done" /\ r2.response = "400")
                    /\ (Exists(j) /\ planning_jobs[j].status \in {"queued", "running"})
                          => (r2.pc = "commit" /\ r2.response = "none")
              /\ (r.pc = "commit" /\ r2.pc # "commit") =>
                    /\ r.job.status \in {"queued", "running"}
                    /\ r2.pc = "done" /\ r2.response = "200"
                    /\ planning_jobs'[j] =
                          [planning_jobs[j] EXCEPT
                              !.status = "cancelled", !.completed_at = TRUE,
                              !.logs = Append(r.job.logs, LogCancelled)]
              /\ (r2.response # r.response) => (r.pc # "done" /\ r2.pc = "done")]_vars

C5_Witness ==
    \E c, d \in CancelIds :
        /\ cancel_reqs[1][c].response = "200"
        /\ cancel_reqs[1][d].response = "400"
        /\ planning_jobs[1].status = "cancelled"
        /\ planning_jobs[1].completed_at

\* C6: progress = 100 exactly for the jobs whose status is completed, failed
\* or cancelled.
C6_ProgressIffTerminal ==
    \A j \in DOMAIN planning_jobs :
        (planning_jobs[j].progress = 100) <=> (planning_jobs[j].status \in Terminal)

\* C7: a job is created with progress 0; progress stays in 0..100, never
\* decreases, changes only by the committed steps 0->20, 20->40, 40->80 and
\* 80->100, and a job that becomes completed has progress 100.
C7_ProgressMonotone ==
    [][/\ \A j \in DOMAIN planning_jobs' :
             /\ planning_jobs'[j].progress \in 0..100
             /\ j \notin DOMAIN planning_jobs => planning_jobs'[j].progress = 0
             /\ planning_jobs'[j].status = "completed" => planning_jobs'[j].progress = 100
       /\ \A j \in DOMAIN planning_jobs :
             /\ planning_jobs'[j].progress >= planning_jobs[j].progress
             /\ planning_jobs'[j].progress # planning_jobs[j].progress
                   => <<planning_jobs[j].progress, planning_jobs'[j].progress>>
                         \in {<<0, 20>>, <<20, 40>>, <<40, 80>>, <<80, 100>>}]_vars

C7_Witness ==
    /\ pc[1] = "done"
    /\ planning_jobs[1].status = "completed"
    /\ planning_jobs[1].progress = 100
    /\ \E c \in CancelIds : cancel_reqs[1][c].response = "200"

C10_LogsAppendOnly ==
    [][\A j \in DOMAIN planning_jobs :
          IsPrefix(planning_jobs[j].logs, planning_jobs'[j].logs)]_vars

\* ------------------------------------------------------------ commit_plan
\* the request answered by the step: a response was appended for plan p
Answered(p) == Len(commit_log'[p]) = Len(commit_log[p]) + 1

Referenced(p) == {pr.rake_number : pr \in PlanRakesOf(p)}

ReferencedOrders(p) == UNION {pr.orders_assigned : pr \in PlanRakesOf(p)}

\* C11: a commit_plan request on an existing plan that is not yet committed
\* answers 200, sets committed and committed_at, and in the same step sets to
\* assigned exactly the existing rakes and orders the plan's PlanRakes
\* reference; rows that no longer exist are skipped (no row appears, nothing
\* else changes) and the commit still succeeds.
C11_CommitAssigns ==
    [][\A p \in PlanIds :
         (Answered(p) /\ p \in DOMAIN plans /\ ~plans[p].committed) =>
            /\ Last(commit_log'[p]).code = "200"
            /\ plans'[p].committed /\ plans'[p].committed_at
            /\ \A q \in DOMAIN plans \ {p} : plans'[q] = plans[q]
            /\ DOMAIN rakes' = DOMAIN rakes
            /\ DOMAIN orders' = DOMAIN orders
            /\ \A r \in DOMAIN rakes :
                  rakes'[r] = IF r \in Referenced(p) THEN "assigned" ELSE rakes[r]
            /\ \A o \in DOMAIN orders :
                  orders'[o] = IF o \in ReferencedOrders(p) THEN "assigned" ELSE orders[o]
            /\ plan_rakes' = plan_rakes]_vars

\* a plan was committed although a rake it references is gone, and an order it
\* references exists and is assigned
C11_Witness ==
    \E p \in DOMAIN plans :
       /\ commit_log[p] = <<[code |-> "200", anomalies |-> {}]>>
       /\ plans[p].committed
       /\ \E r \in Referenced(p) : r \notin DOMAIN rakes
       /\ \E o \in ReferencedOrders(p) : o \in DOMAIN orders /\ orders[o] = "assigned"

\* C12: the first commit_plan request on a plan answers 200; a request on a
\* plan that is already committed answers 400 and leaves the plan rows, the
\* PlanRakes, the rake statuses and the order statuses as they were.
C12_SecondCommitRejected ==
    [][\A p \in PlanIds :
         (Answered(p) /\ p \in DOMAIN plans) =>
            /\ commit_log[p] = <<>> => Last(commit_log'[p]).code = "200"
            /\ plans[p].committed =>
                  /\ Last(commit_log'[p]).code = "400"
                  /\ UNCHANGED <<plans, plan_rakes, rakes, orders>>]_vars

\* a plan was committed, then rejected, while a rake it references is back to
\* available and an order it references is back to pending
C12_Witness ==
    \E p \in DOMAIN plans :
       /\ Len(commit_log[p]) = 2
       /\ commit_log[p][1].code = "200"
       /\ commit_log[p][2].code = "400"
       /\ plans[p].committed
       /\ \E r \in Referenced(p) : r \in DOMAIN rakes /\ rakes[r] = "available"
       /\ \E o \in ReferencedOrders(p) : o \in DOMAIN orders /\ orders[o] = "pending"

\* C13: whenever two committed plans reference the same existing rake, one of
\* the commit responses of the two plans records that rake as an anomaly.
C13_ConflictDetected ==
    \A p, q \in DOMAIN plans :
       (p # q /\ plans[p].committed /\ plans[q].committed) =>
          \A r \in (Referenced(p) \cap Referenced(q)) \cap DOMAIN rakes :
             \E x \in {p, q} : \E i \in DOMAIN commit_log[x] :
                r \in commit_log[x][i].anomalies

\* C14: no step of the job runner changes an Order row, a Rake row or a
\* Stockyard row; the reference rows change only in a step that answers a
\* commit_plan request with 200, and an order goes from pending to assigned
\* only if the plan committed in that step references it.
C14_PlanningLeavesReferenceData ==
    [][/\ (\E j \in JobIds : pc'[j] # pc[j]) => UNCHANGED <<rakes, orders, stockyards>>
       /\ planning_jobs' # planning_jobs => UNCHANGED <<rakes, orders, stockyards>>
       /\ stockyards' = stockyards
       /\ <<rakes, orders>>' # <<rakes, orders>> =>
             \E p \in DOMAIN plans :
                /\ Answered(p)
                /\ Last(commit_log'[p]).code = "200"
                /\ \A o \in DOMAIN orders :
                      (orders[o] = "pending" /\ orders'[o] = "assigned") =>
                         o \in ReferencedOrders(p)]_vars

\* a job ran to completion and stored a plan with a rake and an order, and
\* every rake is still available and every order still pending
C14_Witness ==
    \E j \in JobIds :
       /\ pc[j] = "done"
       /\ Exists(j) /\ planning_jobs[j].status = "completed"
       /\ j \in DOMAIN plans /\ ~plans[j].committed
       /\ Referenced(j) # {} /\ ReferencedOrders(j) # {}
       /\ \A r \in DOMAIN rakes : rakes[r] = "available"
       /\ \A o \in DOMAIN orders : orders[o] = "pending"
       /\ stockyards = StockyardRows


\* ------------------------------------------------------------ planner claims
Produced(res) == res.algorithm \notin {"none", "raised"}

\* the rake of the input with this rake_number
InputRake(n) == CHOOSE rk \in Range(inp.rakes) : rk.rake_number = n

\* the order ids of a payload, rake after rake
PackedAt(res) ==
    UNION {{<<k, i>> : i \in 1..Len(res.rakes[k].orders)} : k \in 1..Len(res.rakes)}

PackedIds(res) == {res.rakes[at[1]].orders[at[2]].order_id : at \in PackedAt(res)}

\* C15: every PlanRake of a produced plan weighs at most the capacity of its
\* rake and at least min_rake_size, and carries at least one order.
C15_RakeWithinBounds ==
    \A r \in DOMAIN result :
       Produced(result[r]) =>
          \A k \in 1..Len(result[r].rakes) :
             LET pr == result[r].rakes[k]
             IN  /\ pr.total_weight <= InputRake(pr.rake_number).total_capacity_tonnes
                 /\ pr.total_weight >= inp.config.min_rake_size
                 /\ Len(pr.orders) >= 1

\* C16: in a produced plan no order id occurs at two places, neither in two
\* PlanRakes nor twice in one.
C16_OrderPackedOnce ==
    \A r \in DOMAIN result :
       Produced(result[r]) =>
          \A a, b \in PackedAt(result[r]) :
             result[r].rakes[a[1]].orders[a[2]].order_id
                = result[r].rakes[b[1]].orders[b[2]].order_id  =>  a = b

\* the solver path returned a plan of two PlanRakes
C16_Witness ==
    /\ result["run1"].algorithm = "or-tools (CP-SAT)"
    /\ Len(result["run1"].rakes) = 2
    /\ Cardinality(PackedIds(result["run1"])) = 2

\* the stock of a product over all stockyards, in the given dicts
TotalStock(inventory, product) ==
    SumOver([c \in DOMAIN inventory |->
                IF product \in DOMAIN inventory[c] THEN inventory[c][product] ELSE 0],
            DOMAIN inventory)

\* the quantity of a product over the given rake plans
TotalPacked(rps, product) ==
    LET at == UNION {{<<k, i>> : i \in 1..Len(rps[k].orders)} : k \in 1..Len(rps)}
    IN  SumOver([a \in at |->
                    IF rps[a[1]].orders[a[2]].product_code = product
                    THEN rps[a[1]].orders[a[2]].quantity ELSE 0], at)

Products == {inp.orders[i].product_code : i \in 1..Len(inp.orders)}

\* no stockyard of the snapshot holds the order's quantity of its product
Uncoverable(o) ==
    \A c \in DOMAIN dicts["snapshot"] :
       ~Sufficient(dicts["snapshot"], c, o.product_code, o.quantity_tonnes)

Started(r) == gp[r].phase \notin {"idle"}

\* the order ids in the kept PlanRakes and in the open pack of a run
RunIds(r) ==
    gp[r].plan.assigned_orders
       \cup {gp[r].pack.rake_orders[i].order_id : i \in 1..Len(gp[r].pack.rake_orders)}

\* C17: in a greedy run no ledger entry is ever negative, the kept PlanRakes
\* hold of each product at most the stock the snapshot had over all
\* stockyards, an order is added to a pack only if the ledger of the pack's
\* origin held its quantity, which is then taken off, and an order that no
\* stockyard of the snapshot covers is never packed; with 2000 t on hand and
\* one order of 2500 t the plan is empty.
C17_InventoryRespected ==
    /\ [](\A r \in DOMAIN gp :
            /\ \A o \in DOMAIN dicts : \A c \in DOMAIN dicts[o] : \A p \in DOMAIN dicts[o][c] :
                  dicts[o][c][p] >= 0
            /\ Started(r) =>
                  /\ \A p \in Products :
                        TotalPacked(gp[r].plan.plan_rakes, p) <= TotalStock(dicts["snapshot"], p)
                  /\ \A i \in 1..Len(inp.orders) :
                        Uncoverable(inp.orders[i]) => inp.orders[i].id \notin RunIds(r)
            /\ Produced(result[r]) =>
                  /\ \A p \in Products :
                        TotalPacked(result[r].rakes, p) <= TotalStock(dicts["snapshot"], p)
                  /\ \A i \in 1..Len(inp.orders) :
                        Uncoverable(inp.orders[i]) => inp.orders[i].id \notin PackedIds(result[r])
                  /\ inp = StarvationScenario.args =>
                        result[r].rakes = <<>> /\ result[r].orders_fulfilled = 0)
    /\ [][\A r \in DOMAIN gp :
            (/\ gp[r].phase = "pack" /\ gp'[r].phase = "pack"
             /\ Len(gp'[r].pack.rake_orders) = Len(gp[r].pack.rake_orders) + 1) =>
               LET e == Last(gp'[r].pack.rake_orders)
                   c == inp.stockyards[gp'[r].pack.origin_stockyard].code
                   own == gp[r].stockyard_inventory
               IN  /\ e.product_code \in DOMAIN dicts[own][c]
                   /\ dicts[own][c][e.product_code] >= e.quantity
                   /\ dicts'[own][c][e.product_code] = dicts[own][c][e.product_code] - e.quantity]_vars

\* a run ended with a PlanRake while an order that no stockyard covers, and
\* an order pinned to a stockyard without enough stock, stayed out
C17_Witness ==
    /\ Produced(result["run1"])
    /\ result["run1"].rakes # <<>>
    /\ \E i \in 1..Len(inp.orders) :
          /\ Uncoverable(inp.orders[i])
          /\ inp.orders[i].source_stockyard_id # None
          /\ inp.orders[i].quantity_tonnes <= inp.rakes[1].total_capacity_tonnes
          /\ inp.orders[i].id \notin PackedIds(result["run1"])

\* the rake plans a run holds: the kept ones and the returned ones
RakePlans(r) ==
    Range(gp[r].plan.plan_rakes)
       \cup (IF Produced(result[r]) THEN Range(result[r].rakes) ELSE {})

\* C18: with allow_multi_destination = false every pack and every PlanRake of
\* a greedy run has one destination, that of the first order packed, shared
\* by all its orders; the orders Dest1 2500 t, Dest1 500 t, Dest2 500 t on a
\* rake of 3480 t give one PlanRake with destinations {Dest1}, the first two
\* orders and 3000 t.
C18_SingleDestination ==
    \A r \in DOMAIN gp :
       (Started(r) /\ ~inp.config.allow_multi_destination) =>
          /\ \A rp \in RakePlans(r) :
                /\ Cardinality(rp.destinations) = 1
                /\ \A i \in 1..Len(rp.orders) :
                      rp.orders[i].destination = rp.orders[1].destination
                      /\ rp.destinations = {rp.orders[1].destination}
          /\ \A i \in 1..Len(gp[r].pack.rake_orders) :
                /\ gp[r].pack.rake_orders[i].destination = gp[r].pack.rake_orders[1].destination
                /\ gp[r].pack.destinations = {gp[r].pack.rake_orders[1].destination}
          /\ (inp = SingleDestScenario.args /\ Produced(result[r])) =>
                /\ Len(result[r].rakes) = 1
                /\ result[r].rakes[1].destinations = {"Dest1"}
                /\ result[r].rakes[1].order_ids = <<1, 2>>
                /\ result[r].rakes[1].total_weight = Tonnes(3000)
                /\ result[r].orders_fulfilled = 2

\* the run on the three orders of the scenario returned
C18_Witness ==
    /\ inp = SingleDestScenario.args
    /\ Produced(result["run1"])
    /\ 3 \notin PackedIds(result["run1"])

\* C19: orders_fulfilled of a produced plan is the number of distinct order
\* ids in the orders of its PlanRakes.
C19_FulfilledCount ==
    \A r \in DOMAIN result :
       Produced(result[r]) =>
          result[r].orders_fulfilled = Cardinality(PackedIds(result[r]))

\* C20: two greedy runs on the same arguments, in any interleaving, return
\* the same payload, which is the one the arguments determine; each run keeps
\* its ledger in dicts of its own and no step changes the snapshot's dicts.
C20_GreedyDeterministic ==
    /\ [](\A r1, r2 \in DOMAIN gp :
            /\ (Produced(result[r1]) /\ Produced(result[r2])) => result[r1] = result[r2]
            /\ Produced(result[r1]) =>
                  result[r1] = GreedyPlan(inp.config, inp.orders, inp.stockyards, inp.rakes,
                                          dicts["snapshot"])
            /\ Started(r1) => gp[r1].stockyard_inventory # "snapshot"
            /\ (Started(r1) /\ Started(r2) /\ r1 # r2) =>
                  gp[r1].stockyard_inventory # gp[r2].stockyard_inventory)
    /\ [][dicts'["snapshot"] = dicts["snapshot"]]_vars

\* both runs returned a plan that the stock of the snapshot covers once but
\* not twice
C20_Witness ==
    /\ Produced(result["run1"]) /\ Produced(result["run2"])
    /\ result["run1"].rakes # <<>>
    /\ 2 * TotalPacked(result["run1"].rakes, "COAL") > TotalStock(dicts["snapshot"], "COAL")
    /\ dicts["run1"] # dicts["snapshot"]

\* a call of run_planner returned or raised
Called(r) == gp[r].phase = "called"

\* the algorithm tags ORToolsPlanner.plan stamps
ORToolsTags ==
    {"or-tools (CP-SAT)", "or-tools (greedy fallback for large instance)",
     "or-tools (no solution, greedy fallback)"}

\* C21 as stated: a call of run_planner with mode optimal returns a plan
\* tagged by the CP-SAT packer.
C21_OptimalModeRunsCPSAT ==
    \A r \in DOMAIN gp :
       (Called(r) /\ gp[r].mode = "optimal") =>
          Produced(result[r]) /\ result[r].algorithm \in ORToolsTags

\* C21 amended: run_planner accepts exactly the modes greedy, or-tools and
\* hybrid and raises for any other, optimal included; with mode or-tools it
\* returns the result of ORToolsPlanner.plan, tagged or-tools, which is the
\* plan extracted from the solver's solution, tagged 'or-tools (CP-SAT)',
\* when the solver answered with one.
C21_ORToolsModeRunsCPSAT ==
    \A r \in DOMAIN gp :
       Called(r) =>
          /\ gp[r].mode \notin {"greedy", "or-tools", "hybrid"} => result[r] = Raised
          /\ (gp[r].mode \in {"greedy", "or-tools", "hybrid"} /\ gp[r].outcome.status # "ERROR")
                => Produced(result[r])
          /\ (gp[r].mode = "or-tools" /\ Produced(result[r])) =>
                /\ result[r].algorithm \in ORToolsTags
                /\ gp[r].outcome.status \in {"OPTIMAL", "FEASIBLE"} =>
                      /\ result[r].algorithm = "or-tools (CP-SAT)"
                      /\ result[r].rakes =
                            extract_solution(inp.config, gp[r].outcome.x, inp.orders,
                                             available_rakes(inp.rakes)).rakes

\* a call with mode or-tools returned a CP-SAT plan with a PlanRake
C21_Witness ==
    /\ Called("run1") /\ gp["run1"].mode = "or-tools"
    /\ result["run1"].algorithm = "or-tools (CP-SAT)"
    /\ result["run1"].rakes # <<>>

\* C22 as stated: no PlanningJob row is created for a request whose mode
\* is none of greedy, or-tools, optimal and hybrid.
C22_UnknownModeCreatesNoJob ==
    \A j \in DOMAIN planning_jobs :
       planning_jobs[j].mode \in {"greedy", "or-tools", "optimal", "hybrid"}

\* what the two packers return on the arguments of the call of run r
GreedyResult ==
    GreedyPlan(inp.config, inp.orders, inp.stockyards, inp.rakes, dicts["snapshot"])

ORToolsResult(r) ==
    ORToolsPlan(inp.config, inp.orders, inp.stockyards, inp.rakes, dicts["snapshot"],
                gp[r].outcome)

HybridCall(r) == Called(r) /\ gp[r].mode = "hybrid"

\* the scale guard as the claims state it
WithinGuard ==
    /\ Len(inp.orders) <= 50
    /\ Cardinality({j \in 1..Len(inp.rakes) : inp.rakes[j].status = "available"}) <= 20

Solved(r) == gp[r].outcome.status \in {"OPTIMAL", "FEASIBLE"}

\* C23: a hybrid call returns the greedy or the CP-SAT result for the same
\* arguments, the one with the lower total_cost and the greedy one on a tie
\* or when the CP-SAT packer raises, under an algorithm tag that names the
\* winner; the returned total_cost is never above the greedy total_cost, so
\* at most 1.1 times it.
C23_HybridReturnsCheaper ==
    \A r \in DOMAIN gp :
       HybridCall(r) =>
          /\ Produced(result[r])
          /\ result[r].total_cost <= GreedyResult.total_cost
          /\ 10 * result[r].total_cost <= 11 * GreedyResult.total_cost
          /\ ORToolsResult(r) = Raised =>
                result[r] = [GreedyResult EXCEPT !.algorithm = "hybrid (greedy only)"]
          /\ ORToolsResult(r) # Raised =>
                /\ result[r].total_cost =
                      Min({GreedyResult.total_cost, ORToolsResult(r).total_cost})
                /\ ORToolsResult(r).total_cost < GreedyResult.total_cost =>
                      result[r] = [ORToolsResult(r) EXCEPT
                                      !.algorithm = "hybrid (or-tools better)"]
                /\ ORToolsResult(r).total_cost >= GreedyResult.total_cost =>
                      result[r] = [GreedyResult EXCEPT
                                      !.algorithm = "hybrid (greedy better)"]

\* a hybrid call returned a CP-SAT plan with a PlanRake that undercut a
\* greedy plan with a PlanRake
C23_Witness ==
    /\ HybridCall("run1")
    /\ result["run1"].algorithm = "hybrid (or-tools better)"
    /\ result["run1"].rakes # <<>>
    /\ GreedyResult.rakes # <<>>

\* C24: a hybrid call within the scale guard, on arguments for which the
\* greedy packer returns a PlanRake, returns a plan tagged hybrid with a
\* total_cost above 0, whatever solution the solver answered.
C24_HybridCostPositive ==
    \A r \in DOMAIN gp :
       (HybridCall(r) /\ WithinGuard /\ Solved(r) /\ GreedyResult.rakes # <<>>) =>
          /\ result[r].algorithm \in {"hybrid (or-tools better)", "hybrid (greedy better)",
                                      "hybrid (greedy only)"}
          /\ result[r].total_cost > 0

\* C25: within the scale guard the total_cost of the CP-SAT plan is at most
\* 1.1 times the total_cost of the greedy plan for the same arguments,
\* whatever solution the solver answered.
C25_ORToolsWithinTenPercent ==
    \A r \in DOMAIN gp :
       (Called(r) /\ gp[r].mode = "or-tools" /\ WithinGuard /\ Solved(r)) =>
          10 * result[r].total_cost <= 11 * GreedyResult.total_cost

\* C26: a call with mode or-tools on more than 50 orders or more than 20
\* available rakes does not consult the solver and returns the greedy result
\* under the tag 'or-tools (greedy fallback for large instance)'; on at most
\* 50 orders and 20 available rakes, rakes of another status not counted,
\* the solver is consulted and its solution is the plan returned.
C26_ScaleGuard ==
    \A r \in DOMAIN gp :
       (Called(r) /\ gp[r].mode = "or-tools") =>
          /\ ~WithinGuard =>
                /\ gp[r].outcome.status = "NOT_CALLED"
                /\ result[r] = [GreedyResult EXCEPT
                                   !.algorithm = "or-tools (greedy fallback for large instance)"]
          /\ WithinGuard =>
                /\ gp[r].outcome.status # "NOT_CALLED"
                /\ Solved(r) =>
                      result[r] = extract_solution(inp.config, gp[r].outcome.x, inp.orders,
                                                   available_rakes(inp.rakes))

\* 51 orders went to the greedy packer, which packed a rake
C26_Witness ==
    /\ Called("run1") /\ gp["run1"].mode = "or-tools"
    /\ Len(inp.orders) = 51
    /\ result["run1"].algorithm = "or-tools (greedy fallback for large instance)"
    /\ result["run1"].rakes # <<>>

\* C27: when the order list is empty a call of run_planner that returns, in
\* any mode, returns no PlanRake, orders_fulfilled 0, total_orders 0 and
\* total_cost 0, whatever rakes and weights it is given, and it returns in
\* every accepted mode unless the solver fails; when no order row is pending
\* the job stores no PlanRake, and once completed it has stored its Plan.
C27_EmptyOrdersEmptyPlan ==
    /\ \A r \in DOMAIN gp :
          (Called(r) /\ inp.orders = <<>>) =>
             /\ (gp[r].mode \in {"greedy", "or-tools", "hybrid"}
                   /\ gp[r].outcome.status # "ERROR") => Produced(result[r])
             /\ Produced(result[r]) =>
                   /\ result[r].rakes = <<>>
                   /\ result[r].orders_fulfilled = 0
                   /\ result[r].total_orders = 0
                   /\ result[r].total_cost = 0
    /\ \A j \in DOMAIN planning_jobs :
          (\A o \in DOMAIN orders : orders[o] # "pending") =>
             /\ plan_result[j].rakes = {}
             /\ \A pr \in plan_rakes : pr.plan_id # j
             /\ planning_jobs[j].status = "completed" => j \in DOMAIN plans

\* a job completed with a Plan and no PlanRake while an order row was
\* assigned, and a hybrid call on no order and a rake returned
C27_Witness ==
    /\ \E j \in DOMAIN planning_jobs :
          /\ planning_jobs[j].status = "completed"
          /\ j \in DOMAIN plans
          /\ snapshot[j].rakes # {}
          /\ DOMAIN orders # {}
    /\ Called("run1") /\ gp["run1"].mode = "hybrid"
    /\ Produced(result["run1"])
    /\ inp.orders = <<>> /\ inp.rakes # <<>>

\* C28 as stated: the greedy plan for the orders Dest1 2500 t, Dest1 500 t,
\* Dest2 500 t on RK001 of 3480 t with allow_multi_destination has one
\* PlanRake with destinations {Dest1, Dest2} and total weight 3500.
C28_MultiDestScenario ==
    \A r \in DOMAIN result :
       (inp = MultiDestScenario.args /\ Produced(result[r])) =>
          /\ Len(result[r].rakes) = 1
          /\ result[r].rakes[1].destinations = {"Dest1", "Dest2"}
          /\ result[r].rakes[1].total_weight = Tonnes(3500)

\* C28 amended: on RK001 of 3480 t the plan has one PlanRake with the two
\* Dest1 orders, destinations {Dest1} and total weight 3000, the Dest2 order
\* being skipped because 3500 exceeds the capacity; on a rake of 3500 t the
\* plan has one PlanRake with the three orders, destinations {Dest1, Dest2}
\* and total weight 3500.
C28_MultiDestWithinCapacity ==
    \A r \in DOMAIN result :
       Produced(result[r]) =>
          /\ inp = MultiDestScenario.args =>
                /\ Len(result[r].rakes) = 1
                /\ result[r].rakes[1].order_ids = <<1, 2>>
                /\ result[r].rakes[1].destinations = {"Dest1"}
                /\ result[r].rakes[1].total_weight = Tonnes(3000)
          /\ inp = RoomyMultiDestScenario.args =>
                /\ Len(result[r].rakes) = 1
                /\ result[r].rakes[1].order_ids = <<1, 2, 3>>
                /\ result[r].rakes[1].destinations = {"Dest1", "Dest2"}
                /\ result[r].rakes[1].total_weight = Tonnes(3500)

\* the run on the three orders and the rake of 3480 t returned
C28_Witness ==
    /\ inp = MultiDestScenario.args
    /\ inp.config.allow_multi_destination
    /\ Produced(result["run1"])
    /\ result["run1"].orders_fulfilled = 2

\* C29: every PlanRake of a greedy run carries demurrage_rate x 24 as
\* demurrage_cost when 100 x total_weight < 75 x capacity and 0 otherwise, a
\* rake at exactly 75% paying nothing; the orders of 2500 t and 2000 t on a
\* rake of 3480 t give one PlanRake with the first order, 2500 t and
\* demurrage 12000, the second order staying out.
C29_DemurrageBelow75 ==
    \A r \in DOMAIN gp :
       Started(r) =>
          /\ \A rp \in RakePlans(r) :
                /\ rp.demurrage_cost =
                      IF 100 * rp.total_weight < 75 * rp.capacity
                      THEN CostScale * DemurrageRate * 24 ELSE 0
                /\ 100 * rp.total_weight = 75 * rp.capacity => rp.demurrage_cost = 0
          /\ (inp = SimplePackScenario.args /\ Produced(result[r])) =>
                /\ Len(result[r].rakes) = 1
                /\ result[r].rakes[1].order_ids = <<1>>
                /\ result[r].rakes[1].total_weight = Tonnes(2500)
                /\ result[r].rakes[1].demurrage_cost = CostScale * 12000
                /\ result[r].demurrage_cost = CostScale * 12000
                /\ 2 \notin PackedIds(result[r])

\* a run returned a PlanRake filled to exactly 75%
C29_Witness ==
    /\ Produced(result["run1"])
    /\ \E rp \in Range(result["run1"].rakes) :
          /\ 100 * rp.total_weight = 75 * rp.capacity
          /\ rp.demurrage_cost = 0

\* C30: the total_cost of every plan run_planner returns is the sum of its
\* freight_cost, demurrage_cost and idle_cost, each weighted by the
\* configured cost weight (1.0, 0.5 and 0.3 by default), and each of the
\* three is the sum of that cost over the PlanRakes of the plan.
C30_TotalCostWeighted ==
    \A r \in DOMAIN gp :
       (Called(r) /\ Produced(result[r])) =>
          LET rks == result[r].rakes
              all == 1..Len(rks)
          IN  /\ result[r].freight_cost = SumOver([k \in all |-> rks[k].freight_cost], all)
              /\ result[r].demurrage_cost = SumOver([k \in all |-> rks[k].demurrage_cost], all)
              /\ result[r].idle_cost = SumOver([k \in all |-> rks[k].idle_cost], all)
              /\ result[r].total_cost =
                    cost_weight(inp.config, "freight", FreightWeight) * result[r].freight_cost
                    + cost_weight(inp.config, "demurrage", DemurrageWeight)
                         * result[r].demurrage_cost
                    + cost_weight(inp.config, "idle", IdleWeight) * result[r].idle_cost

\* the order a run is about to consider, its ledger, and the stockyards
\* whose ledger holds the order's quantity of its product
AtOrder(r) == gp[r].phase = "pack" /\ gp[r].i <= Len(gp[r].sorted_orders)

CurrentOrder(r) == gp[r].sorted_orders[gp[r].i]

Ledger(r) == dicts[gp[r].stockyard_inventory]

Stock(r, k, product) ==
    IF product \in DOMAIN Ledger(r)[inp.stockyards[k].code]
    THEN Ledger(r)[inp.stockyards[k].code][product] ELSE 0

Holds(r, k, o) ==
    /\ o.product_code \in DOMAIN Ledger(r)[inp.stockyards[k].code]
    /\ Stock(r, k, o.product_code) >= o.quantity_tonnes

Selected(r) == select_source_stockyard(CurrentOrder(r), inp.stockyards, Ledger(r))

\* C31: for a pinned order the source selected is the pinned stockyard,
\* whatever its stock, and the order is not packed when the pin lacks the
\* stock; for any other order the source is none exactly when no stockyard
\* holds the quantity, and else a stockyard that holds it: one at the least
\* distance from the destination when the order has destination coordinates,
\* one with the most stock of the product when it has none.
C31_SourceSelection ==
    /\ [](\A r \in DOMAIN gp :
            AtOrder(r) =>
               LET o == CurrentOrder(r)
                   all == 1..Len(inp.stockyards)
                   dist(k) == calculate_distance(inp.stockyards[k].pos, o.destination_pos)
               IN  /\ o.source_stockyard_id # None =>
                         /\ Selected(r) \in all
                         /\ inp.stockyards[Selected(r)].id = o.source_stockyard_id
                   /\ o.source_stockyard_id = None =>
                         /\ Selected(r) = None <=> \A k \in all : ~Holds(r, k, o)
                         /\ Selected(r) # None =>
                               /\ Selected(r) \in all
                               /\ Holds(r, Selected(r), o)
                               /\ o.destination_pos # 0 =>
                                     \A m \in all : Holds(r, m, o) => dist(Selected(r)) <= dist(m)
                               /\ o.destination_pos = 0 =>
                                     \A m \in all : Holds(r, m, o) =>
                                        Stock(r, Selected(r), o.product_code)
                                           >= Stock(r, m, o.product_code))
    /\ [][\A r \in DOMAIN gp :
             (AtOrder(r) /\ CurrentOrder(r).source_stockyard_id # None
                /\ ~Holds(r, Selected(r), CurrentOrder(r)))
                => gp'[r].pack.rake_orders = gp[r].pack.rake_orders]_vars

\* an order with destination coordinates is about to be served by the
\* nearest stockyard that holds it while a farther one holds more
C31_Witness ==
    /\ AtOrder("run1")
    /\ CurrentOrder("run1").source_stockyard_id = None
    /\ CurrentOrder("run1").destination_pos # 0
    /\ Selected("run1") # None
    /\ \E m \in 1..Len(inp.stockyards) :
          /\ Holds("run1", m, CurrentOrder("run1"))
          /\ Stock("run1", m, "COAL") > Stock("run1", Selected("run1"), "COAL")

\* order a comes before order b: lower priority number, then earlier due
\* date, then earlier place in the input (the id of an order is its place)
ComesBefore(a, b) ==
    \/ a.priority < b.priority
    \/ a.priority = b.priority /\ a.due_date < b.due_date
    \/ a.priority = b.priority /\ a.due_date = b.due_date /\ a.id < b.id

InOrder(ids) ==
    \A i, j \in 1..Len(ids) : i < j => ComesBefore(inp.orders[ids[i]], inp.orders[ids[j]])

\* C32: a greedy run considers the orders by ascending priority, then
\* ascending due date, then input order; the orders of every pack and
\* PlanRake are listed in that order; and an unassigned order is passed over
\* for a rake only if it would exceed the capacity, breaks the
\* single-destination rule, has no source, has a source other than the
\* pack's origin, or lacks stock at its source.
C32_PriorityOrder ==
    /\ [](\A r \in DOMAIN gp :
            Started(r) =>
               /\ Len(gp[r].sorted_orders) = Len(inp.orders)
               /\ Range(gp[r].sorted_orders) = Range(inp.orders)
               /\ InOrder([i \in 1..Len(gp[r].sorted_orders) |-> gp[r].sorted_orders[i].id])
               /\ InOrder([i \in 1..Len(gp[r].pack.rake_orders) |->
                              gp[r].pack.rake_orders[i].order_id])
               /\ \A rp \in RakePlans(r) : InOrder(rp.order_ids))
    /\ [][\A r \in DOMAIN gp :
             (AtOrder(r) /\ CurrentOrder(r).id \notin gp[r].plan.assigned_orders
                /\ gp'[r].pack.rake_orders = gp[r].pack.rake_orders) =>
                LET o == CurrentOrder(r)
                    pack == gp[r].pack
                IN  \/ pack.current_weight + o.quantity_tonnes
                          > gp[r].available_rakes[gp[r].j].total_capacity_tonnes
                    \/ /\ ~inp.config.allow_multi_destination
                       /\ pack.destinations # {}
                       /\ o.destination \notin pack.destinations
                    \/ Selected(r) = None
                    \/ /\ pack.origin_stockyard # None
                       /\ inp.stockyards[Selected(r)].code
                             # inp.stockyards[pack.origin_stockyard].code
                    \/ ~Holds(r, Selected(r), o)]_vars

\* a run returned a PlanRake that lists the second order of the input before
\* the first
C32_Witness ==
    /\ Produced(result["run1"])
    /\ \E k \in 1..Len(result["run1"].rakes) : result["run1"].rakes[k].order_ids = <<2, 1>>

\* the step adds the current order of run r to its pack
Adds(r) == AtOrder(r) /\ Len(gp'[r].pack.rake_orders) = Len(gp[r].pack.rake_orders) + 1

\* the step reaches the selection of a source for the current order of run r
ReachesSelection(r) ==
    /\ AtOrder(r)
    /\ CurrentOrder(r).id \notin gp[r].plan.assigned_orders
    /\ gp[r].pack.current_weight + CurrentOrder(r).quantity_tonnes
          <= gp[r].available_rakes[gp[r].j].total_capacity_tonnes
    /\ \/ inp.config.allow_multi_destination
       \/ gp[r].pack.destinations = {}
       \/ CurrentOrder(r).destination \in gp[r].pack.destinations

\* C33: a greedy pack loads at one origin: the origin is set by the first
\* order of the sweep for which a source is selected and stays as set; an
\* order is added only if its selected source is the origin, its quantity is
\* taken off the ledger of the origin and off no other entry; and the
\* PlanRake made of the pack reports that origin.
C33_SingleOrigin ==
    [][\A r \in DOMAIN gp :
          /\ AtOrder(r) =>
                LET origin == gp[r].pack.origin_stockyard
                    o == CurrentOrder(r)
                IN  /\ origin # None => gp'[r].pack.origin_stockyard = origin
                    /\ (origin = None /\ ReachesSelection(r)) =>
                          gp'[r].pack.origin_stockyard = Selected(r)
                    /\ (origin = None /\ ~ReachesSelection(r)) =>
                          gp'[r].pack.origin_stockyard = None
                    /\ Adds(r) =>
                          LET new == gp'[r].pack.origin_stockyard
                              code == inp.stockyards[new].code
                          IN  /\ new # None /\ new = Selected(r)
                              /\ dicts'[gp[r].stockyard_inventory] =
                                    [Ledger(r) EXCEPT ![code][o.product_code] =
                                        @ - o.quantity_tonnes]
                    /\ ~Adds(r) => dicts'[gp[r].stockyard_inventory] = Ledger(r)
          /\ (gp[r].phase = "pack" /\ gp'[r].phase = "loop"
                /\ Len(gp'[r].plan.plan_rakes) > Len(gp[r].plan.plan_rakes)) =>
                /\ gp[r].pack.origin_stockyard # None
                /\ Last(gp'[r].plan.plan_rakes).origin_stockyard_code =
                      inp.stockyards[gp[r].pack.origin_stockyard].code]_vars

\* a pack that holds an order from its origin is offered an order whose
\* selected source is the other stockyard
C33_Witness ==
    /\ AtOrder("run1") /\ ReachesSelection("run1")
    /\ gp["run1"].pack.rake_orders # <<>>
    /\ Selected("run1") # None
    /\ gp["run1"].pack.origin_stockyard # Selected("run1")
    /\ Holds("run1", Selected("run1"), CurrentOrder("run1"))

\* the orders the solver's answer puts on the j-th available rake, and
\* their weight
OnRake(r, j) == {i \in 1..Len(inp.orders) : <<i, j>> \in gp[r].outcome.x}

WeightOn(r, j) ==
    SumOver([i \in 1..Len(inp.orders) |-> inp.orders[i].quantity_tonnes], OnRake(r, j))

\* C34: the plan extracted from a solver answer has a PlanRake for the
\* available rake j exactly when some order has x[i, j] = 1 and those orders
\* weigh at least min_rake_size; that PlanRake carries their weight, which is
\* at most the capacity of the rake, a freight of total_weight x 500 x
\* freight_rate, and demurrage and idle costs of 0.
C34_Extraction ==
    \A r \in DOMAIN gp :
       (Called(r) /\ gp[r].mode = "or-tools" /\ WithinGuard /\ Solved(r)) =>
          LET available == available_rakes(inp.rakes)
              emitted(j) == {k \in 1..Len(result[r].rakes) :
                               result[r].rakes[k].rake_number = available[j].rake_number}
          IN  /\ \A k \in 1..Len(result[r].rakes) :
                    \E j \in 1..Len(available) : k \in emitted(j)
              /\ \A j \in 1..Len(available) :
                    /\ Cardinality(emitted(j)) =
                          IF OnRake(r, j) # {} /\ WeightOn(r, j) >= inp.config.min_rake_size
                          THEN 1 ELSE 0
                    /\ \A k \in emitted(j) :
                          LET rp == result[r].rakes[k]
                          IN  /\ rp.total_weight = WeightOn(r, j)
                              /\ Range(rp.order_ids) = {inp.orders[i].id : i \in OnRake(r, j)}
                              /\ rp.total_weight <= available[j].total_capacity_tonnes
                              /\ rp.freight_cost =
                                    rp.total_weight * DefaultDistance * FreightRate
                              /\ rp.demurrage_cost = 0
                              /\ rp.idle_cost = 0

\* the quantity of a product in the PlanRakes of a payload whose origin is
\* the stockyard of the given code
PackedFrom(res, code, product) ==
    LET at == {a \in PackedAt(res) : res.rakes[a[1]].origin_stockyard_code = code}
    IN  SumOver([a \in at |->
                    IF res.rakes[a[1]].orders[a[2]].product_code = product
                    THEN res.rakes[a[1]].orders[a[2]].quantity ELSE 0], at)

\* C35: when a greedy run has returned, the ledger of each stockyard is
\* lower than the snapshot's inventory, product by product, by the quantity
\* of that product in the kept PlanRakes whose origin is the stockyard.
C35_ReservationsMatchPlan ==
    \A r \in DOMAIN gp :
       (gp[r].phase = "done" /\ Produced(result[r])) =>
          \A code \in DOMAIN Ledger(r) :
             \A product \in DOMAIN Ledger(r)[code] :
                dicts["snapshot"][code][product] - Ledger(r)[code][product]
                   = PackedFrom(result[r], code, product)

\* C36: a job row has completed_at set only when its status is completed,
\* failed or cancelled, and started_at set only when its status is not
\* queued; no job is running with completed_at set.
C36_TimestampsMatchStatus ==
    \A j \in DOMAIN planning_jobs :
       /\ planning_jobs[j].completed_at => planning_jobs[j].status \in Terminal
       /\ planning_jobs[j].started_at => planning_jobs[j].status # "queued"
       /\ ~(planning_jobs[j].status = "running" /\ planning_jobs[j].completed_at)

\* C37: a plan is committed only when its job is completed, no PlanRake is
\* added to a committed plan, and so the existing rakes and orders that the
\* PlanRakes of a committed plan reference are assigned.
C37_CommitOnlyCompletePlan ==
    /\ [][\A p \in DOMAIN plans :
             (~plans[p].committed /\ plans'[p].committed) =>
                planning_jobs[p].status = "completed"]_vars
    /\ [][\A p \in DOMAIN plans :
             plans[p].committed =>
                {pr \in plan_rakes' : pr.plan_id = p} = PlanRakesOf(p)]_vars
    /\ [](\A p \in DOMAIN plans :
            plans[p].committed =>
               /\ \A r \in Referenced(p) \cap DOMAIN rakes : rakes[r] = "assigned"
               /\ \A o \in ReferencedOrders(p) \cap DOMAIN orders : orders[o] = "assigned")

\* C38: a step of the sweep that does not add its order to the pack leaves
\* the pack (origin, weight, destinations, orders, freight) and the ledger
\* as they were.
C38_SkipLeavesPack ==
    [][\A r \in DOMAIN gp :
          (AtOrder(r) /\ ~Adds(r)) =>
             /\ gp'[r].pack = gp[r].pack
             /\ dicts'[gp[r].stockyard_inventory] = Ledger(r)]_vars

====
